---- MODULE Spec2Model ----
(***************************************************************************)
(* node-drive: provenance store, canonical event hashing / signing, and    *)
(* the mint path of the HTTP server (PUT -> create_mint_event).            *)
(*                                                                         *)
(* Strings of the program are TLA+ strings; Option<T> is a sequence of     *)
(* length 0 (None) or 1 (Some).  SHA-256 is idealised as collision free:   *)
(* the digest of b is the text "sha256(b)".                                *)
(***************************************************************************)
EXTENDS Integers, Sequences, FiniteSets, TLC

(* ------------------------------ bounds --------------------------------- *)
MaxTime == 1
MaxRequests == 2
MaxCalls == 3
MaxIndex == 1
MaxUpgrades == 2
MaxMinutes == 6
MaxStampCalls == 3
MaxDownloads == 2

Tasks == {1, 2}
Clients == {1, 2}
Paths == {"/srv/a.txt", "/srv/b.txt"}
Contents == {"x", "y"}
ArtifactIds == {1, 2}

(* ------------------------------ Option --------------------------------- *)
None == <<>>

Some(v) == <<v>>

IsSome(o) == o # <<>>

Unwrap(o) == o[1]

(* Path::file_name(): the last component of a path. *)
FileName(p) ==
    CASE p = "/srv/a.txt" -> "a.txt"
      [] p = "/srv/b.txt" -> "b.txt"
      [] p = "/srv/d/a.txt" -> "a.txt"
      [] OTHER -> p

(* chrono::Utc::now().to_rfc3339() of the logical clock value n. *)
Rfc3339(n) == "2025-09-25T14:12:0" \o ToString(n) \o "Z"

(* Sha256 + hex::encode. *)
Sha256Hex(bytes) == "sha256(" \o bytes \o ")"

(* base64 STANDARD.encode. *)
B64(bytes) == "b64(" \o bytes \o ")"

(* ------------------------------ keys ----------------------------------- *)
SERVER_PRIVATE_KEY_HEX == "e3b0c44298fc1c14"

SERVER_PUBLIC_KEY_HEX == "02506bc1dc099358"

(* Client key pairs used by the unit tests (generate_keypair). *)
PrivKeys == {SERVER_PRIVATE_KEY_HEX, "sk1", "sk2"}

(* secp256k1 public key of a private key (compressed, hex).  The public    *)
(* key of e3b0c442...b855 is 03a34b99...c5bd.                              *)
PubKeyOf(priv) ==
    CASE priv = SERVER_PRIVATE_KEY_HEX -> "03a34b99f22c790c"
      [] priv = "sk1" -> "02pk1"
      [] priv = "sk2" -> "03pk2"
      [] OTHER -> "none"

(* Hex strings that PublicKey::from_slice accepts (points of the curve).   *)
ValidPubKeys == {PubKeyOf(k) : k \in PrivKeys} \cup {SERVER_PUBLIC_KEY_HEX}

(* A string that is hex but no public key ("02a1bc" in the unit tests).    *)
BadPubKey == "02a1bc"

(* A string that is hex but no DER signature ("3045" in the unit tests).   *)
BadSig == <<"3045">>

(* sign_event_hash: DER signature of the 32-byte hash under the key.       *)
sign_event_hash(event_hash_hex, private_key_hex) ==
    <<"der", event_hash_hex, PubKeyOf(private_key_hex)>>

(* verify_event_signature: "err" on a parse failure, else TRUE / FALSE.    *)
verify_event_signature(event_hash_hex, signature_hex, public_key_hex) ==
    IF Len(signature_hex) # 3 THEN "err_parse"
    ELSE IF public_key_hex \notin ValidPubKeys THEN "err_parse"
    ELSE IF signature_hex[2] = event_hash_hex /\ signature_hex[3] = public_key_hex
         THEN "true"
         ELSE "false"

(* ------------------------- canonical event hash ------------------------ *)
NoActors == [creator_pubkey_hex |-> None, prev_owner_pubkey_hex |-> None,
             new_owner_pubkey_hex |-> None]

NoSignatures == [creator_sig_hex |-> None, prev_owner_sig_hex |-> None,
                 new_owner_sig_hex |-> None]

(* serde_json text of a string / of an Option<String>. *)
JsonStr(s) == "\"" \o s \o "\""

JsonOpt(o) == IF IsSome(o) THEN JsonStr(Unwrap(o)) ELSE "null"

(* Members of a JSON object joined by commas. *)
RECURSIVE JoinComma(_)
JoinComma(members) ==
    IF members = <<>> THEN ""
    ELSE IF Len(members) = 1 THEN members[1]
    ELSE members[1] \o "," \o JoinComma(Tail(members))

(* The actors map built by compute_event_hash: creator, new_owner,         *)
(* prev_owner in this order, absent roles omitted.                         *)
ActorsJson_dropNewOwner(actors) ==
    "{" \o JoinComma(
        (IF IsSome(actors.creator_pubkey_hex)
         THEN <<"\"creator_pubkey_hex\":" \o JsonStr(Unwrap(actors.creator_pubkey_hex))>>
         ELSE <<>>) \o
        (IF IsSome(actors.prev_owner_pubkey_hex)
         THEN <<"\"prev_owner_pubkey_hex\":" \o JsonStr(Unwrap(actors.prev_owner_pubkey_hex))>>
         ELSE <<>>)) \o "}"

ActorsJson(actors) ==
    "{" \o JoinComma(
        (IF IsSome(actors.creator_pubkey_hex)
         THEN <<"\"creator_pubkey_hex\":" \o JsonStr(Unwrap(actors.creator_pubkey_hex))>>
         ELSE <<>>) \o
        (IF IsSome(actors.new_owner_pubkey_hex)
         THEN <<"\"new_owner_pubkey_hex\":" \o JsonStr(Unwrap(actors.new_owner_pubkey_hex))>>
         ELSE <<>>) \o
        (IF IsSome(actors.prev_owner_pubkey_hex)
         THEN <<"\"prev_owner_pubkey_hex\":" \o JsonStr(Unwrap(actors.prev_owner_pubkey_hex))>>
         ELSE <<>>)) \o "}"

(* serde_json::to_string(&CanonicalEvent). *)
CanonicalJson(index, action, artifact_sha256_hex, prev_event_hash_hex, actors, issued_at) ==
    "{\"type\":\"provenance.event/v1\"" \o
    ",\"index\":" \o ToString(index) \o
    ",\"action\":" \o JsonStr(action) \o
    ",\"artifact_sha256_hex\":" \o JsonStr(artifact_sha256_hex) \o
    ",\"prev_event_hash_hex\":" \o JsonOpt(prev_event_hash_hex) \o
    ",\"actors\":" \o ActorsJson(actors) \o
    ",\"issued_at\":" \o JsonStr(issued_at) \o "}"

compute_event_hash(index, action, artifact_sha256_hex, prev_event_hash_hex, actors, issued_at) ==
    Sha256Hex(CanonicalJson(index, action, artifact_sha256_hex, prev_event_hash_hex,
                            actors, issued_at))

(* ------------------------------ verify_event --------------------------- *)
(* Result<bool>: "true", "false", "err_missing" (a required pair is        *)
(* absent) or "err_parse" (a signature or key does not parse).             *)
verify_event_skipNewOwner(event) ==
    IF compute_event_hash(event.index, event.action, event.artifact_sha256_hex,
                          event.prev_event_hash_hex, event.actors, event.issued_at)
         # event.event_hash_hex
    THEN "false"
    ELSE IF event.action = "mint"
    THEN IF IsSome(event.signatures.creator_sig_hex) /\ IsSome(event.actors.creator_pubkey_hex)
         THEN verify_event_signature(event.event_hash_hex,
                                     Unwrap(event.signatures.creator_sig_hex),
                                     Unwrap(event.actors.creator_pubkey_hex))
         ELSE "err_missing"
    ELSE IF ~(IsSome(event.signatures.prev_owner_sig_hex)
              /\ IsSome(event.actors.prev_owner_pubkey_hex))
         THEN "err_missing"
         ELSE verify_event_signature(event.event_hash_hex,
                                     Unwrap(event.signatures.prev_owner_sig_hex),
                                     Unwrap(event.actors.prev_owner_pubkey_hex))

verify_event(event) ==
    IF compute_event_hash(event.index, event.action, event.artifact_sha256_hex,
                          event.prev_event_hash_hex, event.actors, event.issued_at)
         # event.event_hash_hex
    THEN "false"
    ELSE IF event.action = "mint"
    THEN IF IsSome(event.signatures.creator_sig_hex) /\ IsSome(event.actors.creator_pubkey_hex)
         THEN verify_event_signature(event.event_hash_hex,
                                     Unwrap(event.signatures.creator_sig_hex),
                                     Unwrap(event.actors.creator_pubkey_hex))
         ELSE "err_missing"
    ELSE IF ~(IsSome(event.signatures.prev_owner_sig_hex)
              /\ IsSome(event.actors.prev_owner_pubkey_hex))
         THEN "err_missing"
         ELSE LET prev_valid == verify_event_signature(event.event_hash_hex,
                                    Unwrap(event.signatures.prev_owner_sig_hex),
                                    Unwrap(event.actors.prev_owner_pubkey_hex))
              IN IF prev_valid = "err_parse" THEN "err_parse"
                 ELSE IF ~(IsSome(event.signatures.new_owner_sig_hex)
                           /\ IsSome(event.actors.new_owner_pubkey_hex))
                 THEN "err_missing"
                 ELSE LET new_valid == verify_event_signature(event.event_hash_hex,
                                           Unwrap(event.signatures.new_owner_sig_hex),
                                           Unwrap(event.actors.new_owner_pubkey_hex))
                      IN IF new_valid = "err_parse" THEN "err_parse"
                         ELSE IF prev_valid = "true" /\ new_valid = "true"
                              THEN "true" ELSE "false"

(* ------------------------------- state --------------------------------- *)
VARIABLES
    artifacts,          \* table artifacts: set of rows
    events,             \* table events: set of rows
    event_actors,       \* table event_actors: set of rows
    event_signatures,   \* table event_signatures: set of rows
    shares,             \* table shares: set of rows
    share_downloads,    \* table share_downloads: rows in insertion order
    files,              \* the served directory: path -> Option<bytes>
    now,                \* the wall clock
    allow_delete,       \* server argument --allow-delete
    pc,                 \* per request task: where the handler is
    req,                \* per request task: the request being handled
    loc,                \* per request task: locals of create_mint_event
    resp,               \* per request task: the response sent
    started,            \* requests started so far
    put_ok,             \* paths for which a PUT has returned a fresh mint response
    cargs,              \* per store client: the InsertEventArgs it built
    cres,               \* per store client: what insert_event returned to it
    calls,              \* number of calls made by the store clients / status callers
    last,               \* the last insert_event call of a store client and its effect
    px,                 \* pure runs: first input
    py,                 \* pure runs: second input
    pr                  \* pure runs: results

dbvars == <<artifacts, events, event_actors, event_signatures, shares, share_downloads>>

srvvars == <<files, now, allow_delete, pc, req, loc, resp, started, put_ok>>

storevars == <<cargs, cres, calls, last>>

purevars == <<px, py, pr>>

vars == <<artifacts, events, event_actors, event_signatures, shares, share_downloads,
          files, now, allow_delete,
          pc, req, loc, resp, started, put_ok, cargs, cres, calls, last,
          px, py, pr>>

(* ---------------------------- the store -------------------------------- *)
(* AUTOINCREMENT primary key of the next row of a table. *)
NextRowId(rows) ==
    IF rows = {} THEN 1
    ELSE (CHOOSE m \in {r.id : r \in rows} : \A r \in rows : r.id <= m) + 1

(* upsert_artifact: INSERT ... ON CONFLICT(file_path) DO UPDATE SET        *)
(* sha256_hex RETURNING id.  Gives the table after the call.               *)
upsert_artifact(file_path, sha256_hex) ==
    IF \E a \in artifacts : a.file_path = file_path
    THEN {IF a.file_path = file_path THEN [a EXCEPT !.sha256_hex = sha256_hex] ELSE a
          : a \in artifacts}
    ELSE artifacts \cup {[id |-> NextRowId(artifacts), file_path |-> file_path,
                          sha256_hex |-> sha256_hex, verified |-> None,
                          last_check_at |-> None]}

(* The id upsert_artifact returns (RETURNING id), read in the new table.   *)
ArtifactIdOf(table, file_path) ==
    (CHOOSE a \in table : a.file_path = file_path).id

(* get_artifact_by_path: Option<row>. *)
get_artifact_by_path(file_path) ==
    IF \E a \in artifacts : a.file_path = file_path
    THEN Some(CHOOSE a \in artifacts : a.file_path = file_path)
    ELSE None

(* get_next_event_index: MAX(index_num) + 1, or 0. *)
get_next_event_index(artifact_id) ==
    LET idx == {e.index_num : e \in {e \in events : e.artifact_id = artifact_id}}
    IN IF idx = {} THEN 0
       ELSE (CHOOSE m \in idx : \A i \in idx : i <= m) + 1

(* The actors / signatures of an event row, joined from the child tables   *)
(* (the two inner loops of get_events).                                    *)
RoleOf(rows, event_id, role, field) ==
    IF \E r \in rows : r.event_id = event_id /\ r.role = role
    THEN Some((CHOOSE r \in rows : r.event_id = event_id /\ r.role = role)[field])
    ELSE None

EventOfRow(e) ==
    [index |-> e.index_num, action |-> e.action,
     artifact_sha256_hex |-> e.artifact_sha256_hex,
     prev_event_hash_hex |-> e.prev_event_hash_hex,
     actors |-> [creator_pubkey_hex |-> RoleOf(event_actors, e.id, "creator", "pubkey_hex"),
                 prev_owner_pubkey_hex |-> RoleOf(event_actors, e.id, "prev_owner", "pubkey_hex"),
                 new_owner_pubkey_hex |-> RoleOf(event_actors, e.id, "new_owner", "pubkey_hex")],
     issued_at |-> e.issued_at, event_hash_hex |-> e.event_hash_hex,
     signatures |-> [creator_sig_hex |-> RoleOf(event_signatures, e.id, "creator", "signature_hex"),
                     prev_owner_sig_hex |-> RoleOf(event_signatures, e.id, "prev_owner", "signature_hex"),
                     new_owner_sig_hex |-> RoleOf(event_signatures, e.id, "new_owner", "signature_hex")],
     ots_proof_b64 |-> e.ots_proof_b64, verified |-> e.verified]

(* Rows sorted by index_num ascending (ORDER BY index_num ASC). *)
RECURSIVE SortByIndex(_)
SortByIndex(rows) ==
    IF rows = {} THEN <<>>
    ELSE LET first == CHOOSE e \in rows : \A f \in rows : e.index_num <= f.index_num
         IN <<first>> \o SortByIndex(rows \ {first})

(* get_events: the events of an artifact, ordered by index. *)
get_events(artifact_id) ==
    LET rows == SortByIndex({e \in events : e.artifact_id = artifact_id})
    IN [i \in 1..Len(rows) |-> EventOfRow(rows[i])]

(* get_manifest_by_path: Option<Manifest>. *)
get_manifest_by_path(file_path) ==
    LET found == get_artifact_by_path(file_path)
    IN IF IsSome(found)
       THEN Some([artifact |-> [sha256_hex |-> Unwrap(found).sha256_hex,
                                file_path |-> Unwrap(found).file_path],
                  events |-> get_events(Unwrap(found).id)])
       ELSE None

(* The rows insert_event writes for the actors / signatures it is given.   *)
ActorRows(event_id, actors) ==
    {[event_id |-> event_id, role |-> "creator", pubkey_hex |-> Unwrap(actors.creator_pubkey_hex)]
        : x \in IF IsSome(actors.creator_pubkey_hex) THEN {1} ELSE {}} \cup
    {[event_id |-> event_id, role |-> "prev_owner", pubkey_hex |-> Unwrap(actors.prev_owner_pubkey_hex)]
        : x \in IF IsSome(actors.prev_owner_pubkey_hex) THEN {1} ELSE {}} \cup
    {[event_id |-> event_id, role |-> "new_owner", pubkey_hex |-> Unwrap(actors.new_owner_pubkey_hex)]
        : x \in IF IsSome(actors.new_owner_pubkey_hex) THEN {1} ELSE {}}

SignatureRows(event_id, signatures) ==
    {[event_id |-> event_id, role |-> "creator", signature_hex |-> Unwrap(signatures.creator_sig_hex)]
        : x \in IF IsSome(signatures.creator_sig_hex) THEN {1} ELSE {}} \cup
    {[event_id |-> event_id, role |-> "prev_owner", signature_hex |-> Unwrap(signatures.prev_owner_sig_hex)]
        : x \in IF IsSome(signatures.prev_owner_sig_hex) THEN {1} ELSE {}} \cup
    {[event_id |-> event_id, role |-> "new_owner", signature_hex |-> Unwrap(signatures.new_owner_sig_hex)]
        : x \in IF IsSome(signatures.new_owner_sig_hex) THEN {1} ELSE {}}

(* The constraints of table events on a new row: UNIQUE(event_hash_hex)    *)
(* and UNIQUE(artifact_id, index_num), which fail as the row is written,   *)
(* then the foreign key to artifacts, checked when the statement ends.     *)
EventConstraint_noUniqueIndex(args) ==
    IF \E e \in events : e.event_hash_hex = args.event_hash_hex THEN "conflict"
    ELSE IF ~(\E a \in artifacts : a.id = args.artifact_id) THEN "foreign_key"
    ELSE "ok"

EventConstraint_noUniqueHash(args) ==
    IF \E e \in events : e.artifact_id = args.artifact_id /\ e.index_num = args.index
    THEN "conflict"
    ELSE IF ~(\E a \in artifacts : a.id = args.artifact_id) THEN "foreign_key"
    ELSE "ok"

EventConstraint(args) ==
    IF \E e \in events : e.event_hash_hex = args.event_hash_hex THEN "conflict"
    ELSE IF \E e \in events : e.artifact_id = args.artifact_id /\ e.index_num = args.index
         THEN "conflict"
    ELSE IF ~(\E a \in artifacts : a.id = args.artifact_id) THEN "foreign_key"
    ELSE "ok"

(* The points of insert_event at which a statement can fail on I/O. *)
FailPoints == {"none", "event", "actors", "signatures", "commit"}

(* The statements of insert_event run one after the other up to the first  *)
(* failure: the result and the rows written so far.                        *)
InsertStatements(args, fail_at) ==
    LET event_id == NextRowId(events)
        row == [id |-> event_id, artifact_id |-> args.artifact_id,
                index_num |-> args.index, action |-> args.action,
                artifact_sha256_hex |-> args.artifact_sha256_hex,
                prev_event_hash_hex |-> args.prev_event_hash_hex,
                issued_at |-> args.issued_at, event_hash_hex |-> args.event_hash_hex,
                ots_proof_b64 |-> args.ots_proof_b64, verified |-> None]
        none == [result |-> "io", event_id |-> 0, events |-> events,
                 event_actors |-> event_actors, event_signatures |-> event_signatures]
        e1 == [none EXCEPT !.events = events \cup {row}]
        e2 == [e1 EXCEPT !.event_actors = event_actors \cup ActorRows(event_id, args.actors)]
        e3 == [e2 EXCEPT !.event_signatures =
                             event_signatures \cup SignatureRows(event_id, args.signatures)]
    IN IF fail_at = "event" THEN none
       ELSE IF EventConstraint(args) # "ok" THEN [none EXCEPT !.result = EventConstraint(args)]
       ELSE IF fail_at = "actors" THEN e1
       ELSE IF fail_at = "signatures" THEN e2
       ELSE IF fail_at = "commit" THEN e3
       ELSE [e3 EXCEPT !.result = "ok", !.event_id = event_id]

(* insert_event: the statements in one transaction; an error drops the     *)
(* transaction, which rolls every statement back.                          *)
insert_event_noTransaction(args, fail_at) == InsertStatements(args, fail_at)

insert_event(args, fail_at) ==
    LET done == InsertStatements(args, fail_at)
    IN IF done.result = "ok" THEN done
       ELSE [result |-> done.result, event_id |-> 0, events |-> events,
             event_actors |-> event_actors, event_signatures |-> event_signatures]

(* ------------------------- the HTTP server ----------------------------- *)
RESUMABLE_UPLOAD_MIN_SIZE == 20971520

CHECK_THROTTLE_MINUTES == 5

NoReq == [method |-> "", path |-> "", body |-> ""]

NoLoc == [sha256_hex |-> "", artifact_id |-> 0, next_index |-> 0, first_event |-> None,
          issued_at |-> "", event_hash_hex |-> "", creator_sig |-> None,
          ots_proof_b64 |-> ""]

NoResp == [status |-> 0, kind |-> "", sha256 |-> "", ots_base64 |-> "", event_hash |-> "",
           issued_at |-> "", stamp_status |-> None, manifest |-> None, error |-> "",
           verify_log |-> ""]

(* The length in bytes of a content.  Two contents stand for data too long *)
(* to write out: RESUMABLE_UPLOAD_MIN_SIZE bytes and one byte less.        *)
BytesLen(bytes) ==
    CASE bytes = "<20MiB>" -> RESUMABLE_UPLOAD_MIN_SIZE
      [] bytes = "<20MiB-1>" -> RESUMABLE_UPLOAD_MIN_SIZE - 1
      [] OTHER -> Len(bytes)

(* fs::metadata(path).len(): the size in bytes of a file, 0 when missing. *)
FileSize(p) == IF IsSome(files[p]) THEN BytesLen(Unwrap(files[p])) ELSE 0

(* A directory in the served tree, and Path::parent() of the paths that    *)
(* have one inside the served tree.                                        *)
DirEntry == Some("<dir>")

Parent(p) == IF p = "/srv/d/a.txt" THEN "/srv/d" ELSE "/srv"

(* ensure_path_parent: create the parent directory when it is missing. *)
ensure_path_parent(fs, path) ==
    IF Parent(path) \in DOMAIN fs /\ ~IsSome(fs[Parent(path)])
    THEN [fs EXCEPT ![Parent(path)] = DirEntry]
    ELSE fs

(* The bytes of a file after bytes were written into it at upload_offset:  *)
(* File::create (None), append (offset = size) or seek and write.          *)
(* A write at offset 0 is computed for bytes that cover the whole file or  *)
(* for no bytes at all; the requests of the runs stay within that.         *)
WriteAt(content, upload_offset, bytes) ==
    IF ~IsSome(upload_offset) THEN bytes
    ELSE IF Unwrap(upload_offset) = BytesLen(content) THEN content \o bytes
    ELSE IF bytes = "" THEN content
    ELSE bytes

(* Server::handle_upload up to the mint: the file is created or opened at  *)
(* the offset and the body copied into it.  A body stream that fails       *)
(* leaves the bytes received; the file is removed when the upload had no   *)
(* offset and the file is smaller than RESUMABLE_UPLOAD_MIN_SIZE.          *)
RemovesPartial_never(upload_offset, size) == FALSE

RemovesPartial(upload_offset, size) ==
    ~IsSome(upload_offset) /\ size < RESUMABLE_UPLOAD_MIN_SIZE

handle_upload(path, upload_offset, body, body_ok, received) ==
    LET fs == ensure_path_parent(files, path)
        content == IF IsSome(files[path]) THEN Unwrap(files[path]) ELSE ""
        written == WriteAt(content, upload_offset, IF body_ok THEN body ELSE received)
        size == BytesLen(written)
    IN IF body_ok
       THEN [files |-> [fs EXCEPT ![path] = Some(written)], failed |-> FALSE,
             status |-> IF IsSome(upload_offset) THEN 204 ELSE 201]
       ELSE [files |-> [fs EXCEPT ![path] =
                           IF RemovesPartial(upload_offset, size)
                           THEN None ELSE Some(written)],
             failed |-> TRUE, status |-> 500]

(* The server spawns one task per request; the tasks are interchangeable,  *)
(* so a new request is given to the first task that is not handling one.   *)
Free(t) ==
    /\ pc[t] \in {"idle", "done"}
    /\ started < MaxRequests
    /\ \A u \in Tasks : u < t => pc[u] \notin {"idle", "done"}

Reply(t, r) ==
    /\ pc' = [pc EXCEPT ![t] = "done"]
    /\ resp' = [resp EXCEPT ![t] = r]
    /\ loc' = [loc EXCEPT ![t] = NoLoc]

(* Server::handle, PUT branch: refuse, or go on to handle_upload. *)
HandlePut(t, p, body) ==
    /\ Free(t)
    /\ started' = started + 1
    /\ req' = [req EXCEPT ![t] = [method |-> "PUT", path |-> p, body |-> body]]
    /\ IF ~allow_delete /\ FileSize(p) > 0
       THEN Reply(t, [NoResp EXCEPT !.status = 403, !.kind = "forbidden"])
       ELSE /\ pc' = [pc EXCEPT ![t] = "upload"]
            /\ resp' = [resp EXCEPT ![t] = NoResp]
            /\ loc' = [loc EXCEPT ![t] = NoLoc]
    /\ UNCHANGED <<dbvars, files, now, allow_delete, put_ok, storevars, purevars>>

(* Server::handle_upload with upload_offset = None: create the file and    *)
(* copy the body into it; a body that fails leaves a partial file, which   *)
(* is removed when it is smaller than RESUMABLE_UPLOAD_MIN_SIZE.           *)
HandleUpload(t, body_ok) ==
    /\ pc[t] = "upload"
    /\ files' = handle_upload(req[t].path, None, req[t].body, body_ok, "").files
    /\ IF body_ok
       THEN /\ pc' = [pc EXCEPT ![t] = "mint_read"]
            /\ resp' = resp
            /\ loc' = loc
       ELSE /\ Reply(t, [NoResp EXCEPT !.status = 500, !.kind = "upload_failed"])
    /\ UNCHANGED <<dbvars, now, allow_delete, req, started, put_ok, storevars, purevars>>

(* create_mint_event: tokio::fs::read(path) and the SHA-256 of the bytes.  *)
MintRead(t) ==
    /\ pc[t] = "mint_read"
    /\ IF IsSome(files[req[t].path])
       THEN /\ loc' = [loc EXCEPT ![t].sha256_hex = Sha256Hex(Unwrap(files[req[t].path]))]
            /\ pc' = [pc EXCEPT ![t] = "mint_upsert"]
            /\ resp' = resp
       ELSE /\ Reply(t, [NoResp EXCEPT !.status = 201, !.kind = "mint_failed",
                                        !.error = "read"])
    /\ UNCHANGED <<dbvars, files, now, allow_delete, req, started, put_ok, storevars, purevars>>

(* create_mint_event: upsert_artifact(&file_name, &sha256_hex, ..). *)
MintUpsert(t) ==
    /\ pc[t] = "mint_upsert"
    /\ artifacts' = upsert_artifact(FileName(req[t].path), loc[t].sha256_hex)
    /\ loc' = [loc EXCEPT ![t].artifact_id = ArtifactIdOf(artifacts', FileName(req[t].path))]
    /\ pc' = [pc EXCEPT ![t] = "mint_index"]
    /\ UNCHANGED <<events, event_actors, event_signatures, files, now, allow_delete, req,
                   resp, started, put_ok, storevars, purevars, shares, share_downloads>>

(* The actors of a mint event: the server's configured public key. *)
MintActors == [NoActors EXCEPT !.creator_pubkey_hex = Some(SERVER_PUBLIC_KEY_HEX)]

(* The prev_event_hash_hex create_mint_event passes for a mint. *)
MintPrevHash_some(sha256_hex) == Some(sha256_hex)

MintPrevHash(sha256_hex) == None

(* create_mint_event: get_next_event_index, then either the branch for an  *)
(* artifact that has events, or issued_at, the canonical hash and the      *)
(* signature of a new mint event.                                          *)
MintNextIndex(t) ==
    /\ pc[t] = "mint_index"
    /\ LET next_index == get_next_event_index(loc[t].artifact_id)
           issued_at == Rfc3339(now)
           event_hash_hex == compute_event_hash(0, "mint", loc[t].sha256_hex,
                                 MintPrevHash(loc[t].sha256_hex), MintActors, issued_at)
       IN IF next_index > 0
          THEN /\ loc' = [loc EXCEPT ![t].next_index = next_index]
               /\ pc' = [pc EXCEPT ![t] = "mint_manifest"]
          ELSE /\ loc' = [loc EXCEPT ![t].next_index = next_index,
                                     ![t].issued_at = issued_at,
                                     ![t].event_hash_hex = event_hash_hex,
                                     ![t].creator_sig =
                                         Some(sign_event_hash(event_hash_hex,
                                                              SERVER_PRIVATE_KEY_HEX))]
               /\ pc' = [pc EXCEPT ![t] = "mint_stamp"]
    /\ UNCHANGED <<dbvars, files, now, allow_delete, req, resp, started, put_ok,
                   storevars, purevars>>

(* get_manifest(&sha256_hex): the artifact rows the digest selects. *)
ArtifactsBySha(sha256_hex) == {a \in artifacts : a.sha256_hex = sha256_hex}

(* create_mint_event, artifact with events: get_manifest(&sha256_hex) and  *)
(* manifest.events[0].                                                     *)
MintGetManifest(t) ==
    /\ pc[t] = "mint_manifest"
    /\ IF ArtifactsBySha(loc[t].sha256_hex) = {}
       THEN /\ Reply(t, [NoResp EXCEPT !.status = 201, !.kind = "mint_failed",
                                        !.error = "manifest_not_found"])
       ELSE \E a \in ArtifactsBySha(loc[t].sha256_hex) :
               LET evs == get_events(a.id)
               IN IF Len(evs) = 0
                  THEN Reply(t, [NoResp EXCEPT !.status = 500, !.kind = "panic"])
                  ELSE /\ loc' = [loc EXCEPT ![t].first_event =
                                     Some([ots_proof_b64 |-> evs[1].ots_proof_b64,
                                           event_hash_hex |-> evs[1].event_hash_hex,
                                           issued_at |-> evs[1].issued_at])]
                       /\ pc' = [pc EXCEPT ![t] = "mint_status"]
                       /\ resp' = resp
    /\ UNCHANGED <<dbvars, files, now, allow_delete, req, started, put_ok, storevars, purevars>>

(* ------------------------- OpenTimestamps ------------------------------ *)
(* hex::decode: the bytes of a hex string, None for a string that is not   *)
(* hex.  The hex strings of the model are the SHA-256 digests and the      *)
(* merkle roots a block explorer reports.                                  *)
MerkleRoots == {"00aa", "00bb"}

HexStrings == {Sha256Hex(c) : c \in Contents} \cup MerkleRoots

hex_decode(h) == IF h \in HexStrings THEN Some("raw(" \o h \o ")") ELSE None

(* Attestation::{Bitcoin, Pending, Unknown}. *)
NoAtt == [type |-> "", height |-> 0, uri |-> "", tag |-> ""]

AttBitcoin(h) == [NoAtt EXCEPT !.type = "bitcoin", !.height = h]

AttPending(uri) == [NoAtt EXCEPT !.type = "pending", !.uri = uri]

AttUnknown(tag) == [NoAtt EXCEPT !.type = "unknown", !.tag = tag]

(* Step { data, output, next }: an attestation leaf keeps its input as     *)
(* output, an operation has one continuation, a fork has several.          *)
AttStep(att, output) ==
    [data |-> [kind |-> "att", op |-> "", att |-> att], output |-> output, next |-> <<>>]

OpStep(op, output, next_step) ==
    [data |-> [kind |-> "op", op |-> op, att |-> NoAtt], output |-> output,
     next |-> <<next_step>>]

ForkStep(output, next) ==
    [data |-> [kind |-> "fork", op |-> "", att |-> NoAtt], output |-> output, next |-> next]

Heights == {1, 2}

Uris == {"calA", "calB"}

(* Vec::extend over a sequence of vectors. *)
RECURSIVE ConcatAll(_)
ConcatAll(seqs) == IF seqs = <<>> THEN <<>> ELSE Head(seqs) \o ConcatAll(Tail(seqs))

(* collect_attestations: the attestations of a step tree, depth first. *)
RECURSIVE collect_attestations(_)
collect_attestations(step) ==
    IF step.data.kind = "att" THEN <<step.data.att>>
    ELSE ConcatAll([i \in 1..Len(step.next) |-> collect_attestations(step.next[i])])

(* is_timestamp_complete: some attestation is a Bitcoin one. *)
is_timestamp_complete(step) ==
    LET attestations == collect_attestations(step)
    IN \E i \in 1..Len(attestations) : attestations[i].type = "bitcoin"

(* collect_pending_attestations: (commitment, uri) of every pending leaf. *)
RECURSIVE collect_pending_attestations(_, _)
collect_pending_attestations(step, commitment) ==
    IF step.data.kind = "att"
    THEN IF step.data.att.type = "pending" THEN <<<<commitment, step.data.att.uri>>>>
         ELSE <<>>
    ELSE ConcatAll([i \in 1..Len(step.next) |->
                       collect_pending_attestations(step.next[i], step.next[i].output)])

(* What a calendar server answers to GET /timestamp/<commitment>: no       *)
(* answer, 404, or the serialized subtree it holds for the commitment.     *)
CalendarReplies == {"error", "notyet", "confirmed", "pending", "unknown", "split"}

(* The subtree a calendar's reply parses to, rooted at the commitment. *)
CalendarSubtree(reply, uri, commitment) ==
    CASE reply = "confirmed" ->
            OpStep("append", "raw(00aa)", AttStep(AttBitcoin(1), "raw(00aa)"))
      [] reply = "pending" -> AttStep(AttPending(uri), commitment)
      [] reply = "unknown" -> AttStep(AttUnknown("tag"), commitment)
      [] reply = "split" ->
            ForkStep(commitment,
                <<OpStep("sha256", "sha256(" \o commitment \o ")",
                         AttStep(AttPending("calA"), "sha256(" \o commitment \o ")")),
                  OpStep("sha256", "sha256(" \o commitment \o ")",
                         AttStep(AttPending("calB"), "sha256(" \o commitment \o ")"))>>)

(* query_calendar_for_upgrade: Err, or the Timestamp parsed from the       *)
(* response with the commitment as its start digest.                       *)
query_calendar_for_upgrade(env, calendar_url, commitment) ==
    IF env.calendar[calendar_url] \in {"error", "notyet"} THEN None
    ELSE Some([start_digest |-> commitment,
               first_step |-> CalendarSubtree(env.calendar[calendar_url], calendar_url,
                                              commitment)])

(* steps_match without its attestation arms. *)
steps_match_noAttestations(step1, step2) ==
    IF step1.output # step2.output THEN FALSE
    ELSE CASE step1.data.kind = "op" /\ step2.data.kind = "op" ->
                 step1.data.op = step2.data.op
           [] step1.data.kind = "fork" /\ step2.data.kind = "fork" -> TRUE
           [] OTHER -> FALSE

(* steps_match: same output and same kind of data. *)
steps_match(step1, step2) ==
    IF step1.output # step2.output THEN FALSE
    ELSE CASE step1.data.kind = "op" /\ step2.data.kind = "op" ->
                 step1.data.op = step2.data.op
           [] step1.data.kind = "fork" /\ step2.data.kind = "fork" -> TRUE
           [] step1.data.kind = "att" /\ step2.data.kind = "att" ->
                 CASE step1.data.att.type = "bitcoin" /\ step2.data.att.type = "bitcoin" ->
                         step1.data.att.height = step2.data.att.height
                   [] step1.data.att.type = "pending" /\ step2.data.att.type = "pending" ->
                         step1.data.att.uri = step2.data.att.uri
                   [] step1.data.att.type = "unknown" /\ step2.data.att.type = "unknown" ->
                         step1.data.att.tag = step2.data.att.tag
                   [] OTHER -> FALSE
           [] OTHER -> FALSE

(* merge_step_recursive: the original step after the merge, and whether    *)
(* it changed.  MergeNext is its loop over upgraded.next from position i.  *)
RECURSIVE merge_step_recursive(_, _)
RECURSIVE MergeNext(_, _, _, _)
MergeNext(original_next, upgraded_next, i, changed) ==
    IF i > Len(upgraded_next) THEN [next |-> original_next, changed |-> changed]
    ELSE LET matches == {j \in 1..Len(original_next) :
                            steps_match(original_next[j], upgraded_next[i])}
         IN IF matches = {}
            THEN MergeNext(Append(original_next, upgraded_next[i]), upgraded_next, i + 1, TRUE)
            ELSE LET j == CHOOSE k \in matches : \A l \in matches : k <= l
                     merged == merge_step_recursive(original_next[j], upgraded_next[i])
                 IN MergeNext([original_next EXCEPT ![j] = merged.step], upgraded_next,
                              i + 1, changed \/ merged.changed)

merge_step_recursive(original, upgraded) ==
    IF \/ original.data.kind = "op" /\ upgraded.data.kind = "op"
       \/ original.data.kind = "fork" /\ upgraded.data.kind = "fork"
    THEN LET merged == MergeNext(original.next, upgraded.next, 1, FALSE)
         IN [step |-> [original EXCEPT !.next = merged.next], changed |-> merged.changed]
    ELSE [step |-> original, changed |-> FALSE]

(* has_new_attestations of merge_timestamps: some attestation of the       *)
(* upgrade is not a Bitcoin attestation of a height the original has.      *)
has_new_attestations(original, upgraded) ==
    LET original_attestations == collect_attestations(original)
        upgraded_attestations == collect_attestations(upgraded)
    IN \E u \in 1..Len(upgraded_attestations) :
          ~\E o \in 1..Len(original_attestations) :
               /\ original_attestations[o].type = "bitcoin"
               /\ upgraded_attestations[u].type = "bitcoin"
               /\ original_attestations[o].height = upgraded_attestations[u].height

(* merge_timestamps: the original after the merge, and the bool returned. *)
merge_timestamps(original, upgraded) ==
    IF ~has_new_attestations(original, upgraded)
    THEN [step |-> original, changed |-> FALSE]
    ELSE merge_step_recursive(original, upgraded)

(* The loop of upgrade_timestamp over the pending attestations collected   *)
(* before it: each answered query replaces the timestamp by the calendar's *)
(* and merges the calendar's timestamp into that.                          *)
RECURSIVE UpgradeLoop(_, _, _, _, _)
UpgradeLoop(env, timestamp, pending, i, changed) ==
    IF i > Len(pending)
    THEN [timestamp |-> timestamp, changed |-> changed, calendar_requests |-> Len(pending)]
    ELSE LET answer == query_calendar_for_upgrade(env, pending[i][2], pending[i][1])
         IN IF IsSome(answer)
            THEN LET upgraded_timestamp == Unwrap(answer)
                     merged == merge_timestamps(upgraded_timestamp.first_step,
                                                upgraded_timestamp.first_step)
                 IN UpgradeLoop(env, [upgraded_timestamp EXCEPT !.first_step = merged.step],
                                pending, i + 1, changed \/ merged.changed)
            ELSE UpgradeLoop(env, timestamp, pending, i + 1, changed)

(* upgrade_timestamp: Ok(changed), the timestamp it leaves in the file and *)
(* the number of calendar requests it made.                                *)
upgrade_timestamp(env, timestamp) ==
    LET pending == collect_pending_attestations(timestamp.first_step, timestamp.start_digest)
    IN IF is_timestamp_complete(timestamp.first_step) \/ pending = <<>>
       THEN [timestamp |-> timestamp, changed |-> FALSE, calendar_requests |-> 0]
       ELSE UpgradeLoop(env, timestamp, pending, 1, FALSE)

(* find_bitcoin_attestation_digest: the output of the first Bitcoin        *)
(* attestation of the height, depth first.                                 *)
RECURSIVE find_bitcoin_attestation_digest(_, _)
find_bitcoin_attestation_digest(step, target_height) ==
    IF step.data.kind = "att"
    THEN IF step.data.att.type = "bitcoin" /\ step.data.att.height = target_height
         THEN Some(step.output) ELSE None
    ELSE LET found == [i \in 1..Len(step.next) |->
                          find_bitcoin_attestation_digest(step.next[i], target_height)]
             hits == {i \in 1..Len(found) : IsSome(found[i])}
         IN IF hits = {} THEN None
            ELSE found[CHOOSE i \in hits : \A j \in hits : i <= j]

(* What the block explorer holds for a height: nothing it can serve, or a  *)
(* block with this merkle root.                                            *)
ExplorerReplies == {"down"} \cup MerkleRoots

(* The time in the header of the block at a height, as the chain of the   *)
(* model has it.                                                           *)
BlockTimestamp(height) == 1000 + height

(* verify_bitcoin_attestation: Ok(VerificationResult) or the error. *)
verify_bitcoin_attestation(env, height, step) ==
    IF env.explorer[height] = "down"
    THEN [ok |-> FALSE, error |-> "explorer", result |-> None]
    ELSE LET attested_digest == find_bitcoin_attestation_digest(step, height)
             merkle_root == hex_decode(env.explorer[height])
         IN IF ~IsSome(attested_digest)
            THEN [ok |-> FALSE, error |-> "Could not find attestation digest",
                  result |-> None]
            ELSE IF ~IsSome(merkle_root)
            THEN [ok |-> FALSE, error |-> "Failed to decode merkle root", result |-> None]
            ELSE IF Unwrap(attested_digest) # Unwrap(merkle_root)
            THEN [ok |-> FALSE, error |-> "Merkle root mismatch!", result |-> None]
            ELSE [ok |-> TRUE, error |-> "",
                  result |-> Some([chain |-> "bitcoin",
                                   timestamp |-> env.time[height],
                                   height |-> height])]

(* The environment of one verification: what each calendar and the block   *)
(* explorer answer while it runs.                                          *)
Envs ==
    [calendar : [Uris -> CalendarReplies], explorer : [Heights -> ExplorerReplies],
     time : {[h \in Heights |-> BlockTimestamp(h)]}]

(* The proofs of the model, by the shape of their step tree. *)
ProofKinds ==
    {"nonce", "two_pending", "confirmed", "two_heights", "same_height", "unknown", "upgraded"}

(* The bytes of a detached timestamp file. *)
OtsBytes(sha256_hex, kind) == "ots(" \o sha256_hex \o "," \o kind \o ")"

(* DetachedTimestampFile::from_reader on OtsBytes(sha256_hex, kind): the   *)
(* timestamp create_timestamp builds ("nonce": append the nonce, hash,     *)
(* then the calendar's pending attestation), files with other leaves, and  *)
(* the file upgrade_timestamp leaves after a calendar answered with its    *)
(* confirmed subtree ("upgraded": the calendar's timestamp, which starts   *)
(* at the commitment).                                                     *)
TimestampOf(sha256_hex, kind) ==
    LET digest == "raw(" \o sha256_hex \o ")"
        nonce_digest == "append(" \o digest \o ")"
        merkle_root == "sha256(" \o nonce_digest \o ")"
        bitcoin1 == OpStep("append", "raw(00aa)", AttStep(AttBitcoin(1), "raw(00aa)"))
        bitcoin2 == OpStep("prepend", "raw(00bb)", AttStep(AttBitcoin(2), "raw(00bb)"))
        bitcoin1b == OpStep("prepend", "raw(00bb)", AttStep(AttBitcoin(1), "raw(00bb)"))
        calendar_step ==
            CASE kind = "nonce" -> AttStep(AttPending("calA"), merkle_root)
              [] kind = "two_pending" ->
                    ForkStep(merkle_root, <<AttStep(AttPending("calA"), merkle_root),
                                            AttStep(AttPending("calB"), merkle_root)>>)
              [] kind = "confirmed" -> bitcoin1
              [] kind = "two_heights" -> ForkStep(merkle_root, <<bitcoin1, bitcoin2>>)
              [] kind = "same_height" -> ForkStep(merkle_root, <<bitcoin1, bitcoin1b>>)
              [] kind = "unknown" -> AttStep(AttUnknown("tag"), merkle_root)
    IN IF kind = "upgraded" THEN [start_digest |-> merkle_root, first_step |-> bitcoin1]
       ELSE [start_digest |-> digest,
             first_step |-> OpStep("append", nonce_digest,
                                   OpStep("sha256", merkle_root, calendar_step))]

(* The base64 strings that decode, and what their bytes parse to: None for *)
(* bytes that are not an OTS file.                                         *)
ProofFiles ==
    {[b64 |-> B64(OtsBytes(Sha256Hex(c), kind)),
      timestamp |-> Some(TimestampOf(Sha256Hex(c), kind))]
        : c \in Contents, kind \in ProofKinds} \cup
    {[b64 |-> B64("PLACEHOLDER_OTS_PROOF"), timestamp |-> None]}

(* The loop of verify_timestamp over the attestations: the results pushed, *)
(* the errors logged and the explorer lookups made.                        *)
RECURSIVE VerifyLoop(_, _, _, _)
VerifyLoop(env, first_step, attestations, i) ==
    IF i > Len(attestations) THEN [results |-> <<>>, logged |-> <<>>, explorer_requests |-> 0]
    ELSE LET rest == VerifyLoop(env, first_step, attestations, i + 1)
         IN IF attestations[i].type # "bitcoin" THEN rest
            ELSE LET v == verify_bitcoin_attestation(env, attestations[i].height, first_step)
                 IN [results |-> (IF v.ok THEN <<Unwrap(v.result)>> ELSE <<>>) \o rest.results,
                     logged |-> (IF v.ok THEN <<>> ELSE <<v.error>>) \o rest.logged,
                     explorer_requests |-> rest.explorer_requests + 1]

VerifyErr(error) ==
    [ok |-> FALSE, error |-> error, results |-> <<>>, logged |-> <<>>,
     calendar_requests |-> 0, explorer_requests |-> 0, upgraded |-> FALSE,
     timestamp |-> None]

(* The digest check of verify_timestamp, with and without the comparison. *)
digest_matches_unchecked(start_digest, artifact_digest) == TRUE

digest_matches(start_digest, artifact_digest) == start_digest = artifact_digest

(* verify_timestamp after upgrade_timestamp returned up: the attestations  *)
(* collected, verified one by one, and the result built from them.         *)
VerifyUpgraded(env, up) ==
    LET attestations == collect_attestations(up.timestamp.first_step)
        loop == VerifyLoop(env, up.timestamp.first_step, attestations, 1)
        made == [VerifyErr("") EXCEPT
                    !.logged = loop.logged,
                    !.calendar_requests = up.calendar_requests,
                    !.explorer_requests = loop.explorer_requests,
                    !.upgraded = up.changed,
                    !.timestamp = Some(up.timestamp)]
    IN IF attestations = <<>>
       THEN [made EXCEPT !.error = "No attestations found in timestamp"]
       ELSE IF loop.results = <<>>
       THEN [made EXCEPT !.error = "No verified attestations found"]
       ELSE [made EXCEPT !.ok = TRUE, !.results = loop.results]

(* verify_timestamp(ots_proof_b64, artifact_sha256_hex): Ok(results) or    *)
(* Err(error), with the errors it only logged and the requests it made.    *)
verify_timestamp(env, ots_proof_b64, artifact_sha256_hex) ==
    LET artifact_digest == hex_decode(artifact_sha256_hex)
    IN IF ~\E f \in ProofFiles : f.b64 = ots_proof_b64
       THEN VerifyErr("Failed to decode base64 OTS proof")
       ELSE IF ~IsSome(artifact_digest) THEN VerifyErr("Failed to decode artifact SHA256")
       ELSE LET parsed == (CHOOSE f \in ProofFiles : f.b64 = ots_proof_b64).timestamp
            IN IF ~IsSome(parsed) THEN VerifyErr("Failed to parse OTS file")
               ELSE IF ~digest_matches(Unwrap(parsed).start_digest, Unwrap(artifact_digest))
               THEN VerifyErr("File does not match original!")
               ELSE VerifyUpgraded(env, upgrade_timestamp(env, Unwrap(parsed)))

(* StampStatus { success: false, results: None, error: None, .. }, and the *)
(* same with an error.                                                     *)
Pending_error(sha256_hex) ==
    Some([success |-> FALSE, results |-> None, error |-> Some("verification failed"),
          sha256_hex |-> sha256_hex])

Pending(sha256_hex) ==
    Some([success |-> FALSE, results |-> None, error |-> None, sha256_hex |-> sha256_hex])

(* The throttle test of compute_stamp_status, without and with the         *)
(* comparison of the elapsed time.                                         *)
Throttled_never(last_check_at) == FALSE

Throttled(last_check_at) ==
    IsSome(last_check_at) /\ now - Unwrap(last_check_at) < CHECK_THROTTLE_MINUTES

(* update_last_check_at(artifact_id): the artifacts table after it. *)
update_last_check_at(artifact_id) ==
    {IF b.id = artifact_id THEN [b EXCEPT !.last_check_at = Some(now)] ELSE b
     : b \in artifacts}

(* The cached verification of an artifact row, with and without reading    *)
(* the row.                                                                *)
CachedVerification_none(a) == None

CachedVerification(a) == a.verified

(* DetachedTimestampFile::to_writer and base64: the proof string of a      *)
(* timestamp.                                                              *)
to_b64(timestamp) == (CHOOSE f \in ProofFiles : f.timestamp = Some(timestamp)).b64

(* The environments a stamp status is computed in: both calendars answer   *)
(* alike, and the explorer is down, holds the blocks the proofs name, or   *)
(* holds other blocks.                                                     *)
StampEnvs ==
    {env \in Envs :
        /\ env.calendar["calA"] = env.calendar["calB"]
        /\ env.calendar["calA"] \in {"error", "notyet", "confirmed", "pending"}
        /\ env.explorer \in {[h \in Heights |-> "down"],
                             [h \in Heights |-> IF h = 1 THEN "00aa" ELSE "00bb"],
                             [h \in Heights |-> IF h = 1 THEN "00bb" ELSE "00aa"]}}

(* compute_stamp_status once verify_timestamp returned v for the latest    *)
(* event of artifact a: Err leaves the artifact checked and pending, Ok    *)
(* caches the first result per chain and reports the last one.             *)
StatusOfVerification(a, latest_event, v) ==
    LET checked == update_last_check_at(a.id)
        first_result == <<v.results[1].chain, v.results[1].timestamp,
                          v.results[1].height>>
        last_result == <<v.results[Len(v.results)].chain,
                         v.results[Len(v.results)].timestamp,
                         v.results[Len(v.results)].height>>
    IN IF ~v.ok
       THEN [status |-> Pending(a.sha256_hex), artifacts |-> checked,
             events |-> events, verify_calls |-> 1,
             requests |-> v.calendar_requests + v.explorer_requests]
       ELSE [status |-> Some([success |-> TRUE, results |-> Some(last_result),
                              error |-> None,
                              sha256_hex |-> a.sha256_hex]),
             artifacts |-> {IF b.id = a.id
                            THEN [b EXCEPT !.verified = Some(first_result)]
                            ELSE b : b \in checked},
             events |-> {IF e = latest_event
                         THEN [e EXCEPT !.verified = Some(first_result),
                                        !.ots_proof_b64 =
                                            IF v.upgraded THEN to_b64(Unwrap(v.timestamp))
                                            ELSE e.ots_proof_b64]
                         ELSE e : e \in events},
             verify_calls |-> 1,
             requests |-> v.calendar_requests + v.explorer_requests]

(* compute_stamp_status(path): the status, the tables after it, whether it *)
(* called verify_timestamp and the outbound requests that call made.       *)
compute_stamp_status(path, env) ==
    LET found == get_artifact_by_path(path)
        same == [status |-> None, artifacts |-> artifacts, events |-> events,
                 verify_calls |-> 0, requests |-> 0]
    IN IF ~IsSome(found) THEN same
       ELSE LET a == Unwrap(found)
                rows == SortByIndex({e \in events : e.artifact_id = a.id})
                latest_event == rows[Len(rows)]
            IN IF IsSome(CachedVerification(a))
               THEN [same EXCEPT !.status = Some([success |-> TRUE,
                                                   results |-> CachedVerification(a),
                                                   error |-> None,
                                                   sha256_hex |-> a.sha256_hex])]
               ELSE IF Throttled(a.last_check_at)
               THEN [same EXCEPT !.status = Pending(a.sha256_hex)]
               ELSE IF rows = <<>> THEN same
               ELSE StatusOfVerification(a, latest_event,
                        verify_timestamp(env, latest_event.ots_proof_b64,
                                         latest_event.artifact_sha256_hex))

(* create_mint_event, artifact with events: compute_stamp_status and the   *)
(* response built from the first event.                                    *)
MintStatusReply(t, st) ==
    /\ LET first_event == Unwrap(loc[t].first_event)
       IN /\ artifacts' = st.artifacts
          /\ events' = st.events
          /\ Reply(t, [NoResp EXCEPT !.status = 201, !.kind = "existing",
                                      !.sha256 = loc[t].sha256_hex,
                                      !.ots_base64 = first_event.ots_proof_b64,
                                      !.event_hash = first_event.event_hash_hex,
                                      !.issued_at = first_event.issued_at,
                                      !.stamp_status = st.status])
    /\ UNCHANGED <<event_actors, event_signatures, files, now, allow_delete, req,
                   started, put_ok, storevars, purevars, shares, share_downloads>>

MintStampStatus(t, env) ==
    /\ pc[t] = "mint_status"
    /\ MintStatusReply(t, compute_stamp_status(req[t].path, env))

(* create_timestamp(&digest): the proof of the first calendar that         *)
(* answers, or the placeholder when none does.                             *)
MintStamp(t, stamped) ==
    /\ pc[t] = "mint_stamp"
    /\ loc' = [loc EXCEPT ![t].ots_proof_b64 =
                  B64(IF stamped
                      THEN "ots(" \o loc[t].sha256_hex \o ",nonce)"
                      ELSE "PLACEHOLDER_OTS_PROOF")]
    /\ pc' = [pc EXCEPT ![t] = "mint_insert"]
    /\ UNCHANGED <<dbvars, files, now, allow_delete, req, resp, started, put_ok,
                   storevars, purevars>>

(* The InsertEventArgs of the mint event of task t. *)
MintArgs(t) ==
    [artifact_id |-> loc[t].artifact_id, index |-> 0, action |-> "mint",
     artifact_sha256_hex |-> loc[t].sha256_hex,
     prev_event_hash_hex |-> MintPrevHash(loc[t].sha256_hex),
     issued_at |-> loc[t].issued_at, event_hash_hex |-> loc[t].event_hash_hex,
     ots_proof_b64 |-> loc[t].ots_proof_b64, actors |-> MintActors,
     signatures |-> [NoSignatures EXCEPT !.creator_sig_hex = loc[t].creator_sig]]

(* create_mint_event: insert_event, verify_event on the event just         *)
(* written (its result is only logged), and the mint response.             *)
MintInsert(t, fail_at) ==
    /\ pc[t] = "mint_insert"
    /\ LET args == MintArgs(t)
           r == insert_event(args, fail_at)
           created_event == [index |-> 0, action |-> "mint",
                             artifact_sha256_hex |-> args.artifact_sha256_hex,
                             prev_event_hash_hex |-> args.prev_event_hash_hex,
                             actors |-> args.actors, issued_at |-> args.issued_at,
                             event_hash_hex |-> args.event_hash_hex,
                             signatures |-> args.signatures]
       IN /\ events' = r.events
          /\ event_actors' = r.event_actors
          /\ event_signatures' = r.event_signatures
          /\ IF r.result # "ok"
             THEN /\ Reply(t, [NoResp EXCEPT !.status = 201, !.kind = "mint_failed",
                                              !.error = r.result])
                  /\ put_ok' = put_ok
             ELSE /\ Reply(t, [NoResp EXCEPT !.status = 201, !.kind = "minted",
                                   !.sha256 = args.artifact_sha256_hex,
                                   !.ots_base64 = args.ots_proof_b64,
                                   !.event_hash = args.event_hash_hex,
                                   !.issued_at = args.issued_at,
                                   !.stamp_status = Pending(args.artifact_sha256_hex),
                                   !.verify_log = verify_event(created_event)])
                  /\ put_ok' = put_ok \cup {req[t].path}
    /\ UNCHANGED <<artifacts, files, now, allow_delete, req, started, storevars, purevars,
                   shares, share_downloads>>

(* GET <file>?manifest=json: handle_provenance_manifest. *)
HandleManifest(t, p) ==
    /\ Free(t)
    /\ started' = started + 1
    /\ req' = [req EXCEPT ![t] = [method |-> "GET", path |-> p, body |-> ""]]
    /\ IF IsSome(files[p]) /\ IsSome(get_manifest_by_path(p))
       THEN Reply(t, [NoResp EXCEPT !.status = 200, !.kind = "manifest",
                                     !.manifest = get_manifest_by_path(p)])
       ELSE Reply(t, [NoResp EXCEPT !.status = 404, !.kind = "not_found"])
    /\ UNCHANGED <<dbvars, files, now, allow_delete, put_ok, storevars, purevars>>

(* The clock advances. *)
Tick ==
    /\ now < MaxTime
    /\ now' = now + 1
    /\ UNCHANGED <<dbvars, files, allow_delete, pc, req, loc, resp, started, put_ok,
                   storevars, purevars>>

NoArgs == [artifact_id |-> 0, index |-> 0, action |-> "", artifact_sha256_hex |-> "",
           prev_event_hash_hex |-> None, issued_at |-> "", event_hash_hex |-> "",
           ots_proof_b64 |-> "", actors |-> NoActors, signatures |-> NoSignatures]

NoPure == [index |-> 0, action |-> "", artifact_sha256_hex |-> "",
           prev_event_hash_hex |-> None, inits |-> <<>>, actors |-> NoActors,
           issued_at |-> "", event_hash_hex |-> "", signatures |-> NoSignatures]

NoCall == [client |-> 0, fail_at |-> "", result |-> "", event_id |-> 0,
           dup_index |-> FALSE, dup_hash |-> FALSE, unchanged |-> TRUE]

InitStoreIdle ==
    /\ cargs = [c \in Clients |-> NoArgs]
    /\ cres = [c \in Clients |-> ""]
    /\ calls = 0
    /\ last = NoCall

InitPureIdle ==
    /\ px = NoPure
    /\ py = NoPure
    /\ pr = <<>>

InitServerIdle ==
    /\ files = [p \in Paths |-> None]
    /\ now = 0
    /\ allow_delete = TRUE
    /\ pc = [t \in Tasks |-> "idle"]
    /\ req = [t \in Tasks |-> NoReq]
    /\ loc = [t \in Tasks |-> NoLoc]
    /\ resp = [t \in Tasks |-> NoResp]
    /\ started = 0
    /\ put_ok = {}

InitDb ==
    /\ artifacts = {}
    /\ events = {}
    /\ event_actors = {}
    /\ event_signatures = {}
    /\ shares = {}
    /\ share_downloads = <<>>

Init == InitDb /\ InitServerIdle /\ InitStoreIdle /\ InitPureIdle

Next ==
    \/ \E t \in Tasks, p \in Paths, body \in Contents : HandlePut(t, p, body)
    \/ \E t \in Tasks, body_ok \in BOOLEAN : HandleUpload(t, body_ok)
    \/ \E t \in Tasks : MintRead(t)
    \/ \E t \in Tasks : MintUpsert(t)
    \/ \E t \in Tasks : MintNextIndex(t)
    \/ \E t \in Tasks : MintGetManifest(t)
    \/ \E t \in Tasks, env \in StampEnvs : MintStampStatus(t, env)
    \/ \E t \in Tasks, stamped \in BOOLEAN : MintStamp(t, stamped)
    \/ \E t \in Tasks, fail_at \in FailPoints : MintInsert(t, fail_at)
    \/ \E t \in Tasks, p \in Paths : HandleManifest(t, p)
    \/ Tick

Spec == Init /\ [][Next]_vars

(* ------------------- the store used through its API -------------------- *)
(* Callers of the store other than the server's mint (the unit tests, an   *)
(* event manager issuing transfers): a client builds InsertEventArgs from  *)
(* what it reads, hashes and signs them, and calls insert_event.           *)
StorePaths == {"a.txt", "b.txt"}

ClientActors == {
    [NoActors EXCEPT !.creator_pubkey_hex = Some("02pk1")],
    [NoActors EXCEPT !.prev_owner_pubkey_hex = Some("02pk1"),
                     !.new_owner_pubkey_hex = Some("03pk2")],
    [NoActors EXCEPT !.prev_owner_pubkey_hex = Some("02pk1"),
                     !.new_owner_pubkey_hex = Some("02pk1")]}

(* The private key of a client public key. *)
PrivKeyOf(pub) == CHOOSE k \in PrivKeys : PubKeyOf(k) = pub

SignRole(event_hash_hex, pubkey) ==
    IF IsSome(pubkey) THEN Some(sign_event_hash(event_hash_hex, PrivKeyOf(Unwrap(pubkey))))
    ELSE None

(* db.upsert_artifact(path, sha256). *)
StoreUpsert(file_path) ==
    /\ artifacts' = upsert_artifact(file_path, Sha256Hex("x"))
    /\ artifacts' # artifacts
    /\ UNCHANGED <<events, event_actors, event_signatures, srvvars, storevars, purevars,
                   shares, share_downloads>>

(* A client reads next_event_index and builds, hashes and signs an event:  *)
(* a mint for an artifact without events, a transfer on top of the last    *)
(* event otherwise.                                                        *)
ClientBuild(c, artifact_id, actors) ==
    /\ calls < MaxCalls
    /\ \A d \in Clients : d < c => cargs[d] # NoArgs
    /\ cargs[c] = NoArgs \/ cres[c] # ""
    /\ get_next_event_index(artifact_id) <= MaxIndex
    /\ (get_next_event_index(artifact_id) = 0) <=> IsSome(actors.creator_pubkey_hex)
    /\ LET index == get_next_event_index(artifact_id)
           before == {e \in events : e.artifact_id = artifact_id /\ e.index_num = index - 1}
           prev == IF before = {} THEN None
                   ELSE Some((CHOOSE e \in before : TRUE).event_hash_hex)
           action == IF IsSome(actors.creator_pubkey_hex) THEN "mint" ELSE "transfer"
           sha == Sha256Hex("x")
           issued_at == Rfc3339(now)
           event_hash_hex == compute_event_hash(index, action, sha, prev, actors, issued_at)
       IN cargs' = [cargs EXCEPT ![c] =
              [artifact_id |-> artifact_id, index |-> index, action |-> action,
               artifact_sha256_hex |-> sha, prev_event_hash_hex |-> prev,
               issued_at |-> issued_at, event_hash_hex |-> event_hash_hex,
               ots_proof_b64 |-> "ots_proof_base64", actors |-> actors,
               signatures |->
                   [creator_sig_hex |-> SignRole(event_hash_hex, actors.creator_pubkey_hex),
                    prev_owner_sig_hex |-> SignRole(event_hash_hex, actors.prev_owner_pubkey_hex),
                    new_owner_sig_hex |-> SignRole(event_hash_hex, actors.new_owner_pubkey_hex)]]]
    /\ cres' = [cres EXCEPT ![c] = ""]
    /\ last' = IF last.client = c THEN NoCall ELSE last
    /\ UNCHANGED <<dbvars, srvvars, calls, purevars>>

(* The client calls insert_event. *)
ClientInsert(c, fail_at) ==
    /\ cargs[c] # NoArgs
    /\ cres[c] = ""
    /\ LET args == cargs[c]
           r == insert_event(args, fail_at)
       IN /\ events' = r.events
          /\ event_actors' = r.event_actors
          /\ event_signatures' = r.event_signatures
          /\ cres' = [cres EXCEPT ![c] = r.result]
          /\ last' = [client |-> c, fail_at |-> fail_at, result |-> r.result,
                      event_id |-> r.event_id,
                      dup_index |-> \E e \in events : /\ e.artifact_id = args.artifact_id
                                                       /\ e.index_num = args.index,
                      dup_hash |-> \E e \in events : e.event_hash_hex = args.event_hash_hex,
                      unchanged |-> /\ r.events = events
                                    /\ r.event_actors = event_actors
                                    /\ r.event_signatures = event_signatures]
    /\ calls' = calls + 1
    /\ UNCHANGED <<artifacts, srvvars, cargs, purevars, shares, share_downloads>>

NextStore ==
    \/ \E file_path \in StorePaths : StoreUpsert(file_path)
    \/ \E c \in Clients, artifact_id \in ArtifactIds, actors \in ClientActors :
          ClientBuild(c, artifact_id, actors)
    \/ \E c \in Clients, fail_at \in FailPoints : ClientInsert(c, fail_at)

SpecStore == Init /\ [][NextStore]_vars

(* --------------------- compute_event_hash on its own ------------------- *)
(* px and py are two argument lists of compute_event_hash.  The Actors     *)
(* value of each is built from `inits`, the (role, key) assignments in the *)
(* order the caller wrote them.                                            *)
RoleNames == <<"creator_pubkey_hex", "new_owner_pubkey_hex", "prev_owner_pubkey_hex">>

HashKeys == {"02pk1", "03pk2"}

RECURSIVE ActorsOf(_)
ActorsOf(inits) ==
    IF inits = <<>> THEN NoActors
    ELSE [ActorsOf(Tail(inits)) EXCEPT ![Head(inits)[1]] = Some(Head(inits)[2])]

RECURSIVE InitsOf(_, _)
InitsOf(keys, i) ==
    IF i > Len(RoleNames) THEN <<>>
    ELSE (IF IsSome(keys[i]) THEN <<(<<RoleNames[i], Unwrap(keys[i])>>)>> ELSE <<>>)
         \o InitsOf(keys, i + 1)

HashInputs ==
    {[NoPure EXCEPT !.index = index, !.action = action,
                    !.artifact_sha256_hex = Sha256Hex("x"),
                    !.prev_event_hash_hex = prev,
                    !.inits = InitsOf(keys, 1),
                    !.issued_at = Rfc3339(0)] :
        index \in 0..MaxIndex, action \in {"mint", "transfer"},
        prev \in {None, Some(Sha256Hex("e0"))},
        keys \in [1..3 -> {None} \cup {Some(k) : k \in HashKeys}]}

HashOf(x) ==
    compute_event_hash(x.index, x.action, x.artifact_sha256_hex, x.prev_event_hash_hex,
                       ActorsOf(x.inits), x.issued_at)

Unhashed == pr = <<>> /\ px # NoPure

(* py still has px's values in every field (inits possibly reordered). *)
OneChange(y) ==
    /\ Unhashed
    /\ [py EXCEPT !.inits = px.inits] = px
    /\ {py.inits[i] : i \in DOMAIN py.inits} = {px.inits[i] : i \in DOMAIN px.inits}
    /\ y # py
    /\ py' = y
    /\ UNCHANGED <<dbvars, srvvars, storevars, px, pr>>

SetIndex(index) == OneChange([py EXCEPT !.index = index])

SetAction(action) == OneChange([py EXCEPT !.action = action])

SetDigest(body) == OneChange([py EXCEPT !.artifact_sha256_hex = Sha256Hex(body)])

SetPrev(prev) == OneChange([py EXCEPT !.prev_event_hash_hex = prev])

SetIssuedAt(t) == OneChange([py EXCEPT !.issued_at = Rfc3339(t)])

Without(inits, role) == SelectSeq(inits, LAMBDA a : a[1] # role)

(* Adds, removes or re-keys one actor role. *)
SetActor(role, key) ==
    OneChange([py EXCEPT !.inits = Without(py.inits, role) \o
                   (IF IsSome(key) THEN <<(<<role, Unwrap(key)>>)>> ELSE <<>>)])

(* The same actor assignments written in another order. *)
Reconstruct(order) ==
    /\ Unhashed
    /\ Len(order) = Len(py.inits)
    /\ {order[i] : i \in DOMAIN order} = DOMAIN py.inits
    /\ py' = [py EXCEPT !.inits = [i \in DOMAIN order |-> py.inits[order[i]]]]
    /\ py' # py
    /\ UNCHANGED <<dbvars, srvvars, storevars, px, pr>>

HashBoth ==
    /\ Unhashed
    /\ pr' = <<HashOf(px), HashOf(py)>>
    /\ UNCHANGED <<dbvars, srvvars, storevars, px, py>>

InitHash ==
    /\ InitDb /\ InitServerIdle /\ InitStoreIdle
    /\ px \in HashInputs
    /\ py = px
    /\ pr = <<>>

NextHash ==
    \/ \E index \in 0..MaxIndex : SetIndex(index)
    \/ \E action \in {"mint", "transfer"} : SetAction(action)
    \/ \E body \in Contents : SetDigest(body)
    \/ \E prev \in {None, Some(Sha256Hex("e0")), Some(Sha256Hex("e1"))} : SetPrev(prev)
    \/ \E t \in 0..MaxTime : SetIssuedAt(t)
    \/ \E i \in 1..3, key \in {None} \cup {Some(k) : k \in HashKeys} :
          SetActor(RoleNames[i], key)
    \/ \E order \in UNION {[1..n -> 1..n] : n \in 2..3} : Reconstruct(order)
    \/ HashBoth

SpecHash == InitHash /\ [][NextHash]_vars

(* ------------------------- verify_event on its own --------------------- *)
(* px is the Event handed to verify_event, pr its result.                  *)
VerifyKeys == {None, Some("02pk1"), Some(BadPubKey)}

VerifySigs(event_hash_hex) ==
    {None, Some(sign_event_hash(event_hash_hex, "sk1")),
     Some(sign_event_hash(event_hash_hex, "sk2")), Some(BadSig)}

VerifyEvents ==
    UNION {
        LET actors == [creator_pubkey_hex |-> keys[1], prev_owner_pubkey_hex |-> keys[2],
                       new_owner_pubkey_hex |-> keys[3]]
            index == IF action = "mint" THEN 0 ELSE 1
            prev == IF action = "mint" THEN None ELSE Some(Sha256Hex("e0"))
            h == compute_event_hash(index, action, Sha256Hex("x"), prev, actors, Rfc3339(0))
        IN {[NoPure EXCEPT !.index = index, !.action = action,
                           !.artifact_sha256_hex = Sha256Hex("x"),
                           !.prev_event_hash_hex = prev, !.actors = actors,
                           !.issued_at = Rfc3339(0), !.event_hash_hex = h,
                           !.signatures = [creator_sig_hex |-> sigs[1],
                                           prev_owner_sig_hex |-> sigs[2],
                                           new_owner_sig_hex |-> sigs[3]]] :
               sigs \in [1..3 -> VerifySigs(h)]} :
        action \in {"mint", "transfer"}, keys \in [1..3 -> VerifyKeys]}

TamperedHash == "0000000000000000"

(* The stored event_hash_hex is overwritten, as in                          *)
(* test_verify_event_with_tampered_hash.                                    *)
TamperHash ==
    /\ pr = <<>>
    /\ px.event_hash_hex # TamperedHash
    /\ px' = [px EXCEPT !.event_hash_hex = TamperedHash]
    /\ UNCHANGED <<dbvars, srvvars, storevars, py, pr>>

VerifyEvent ==
    /\ pr = <<>>
    /\ pr' = <<verify_event(px)>>
    /\ UNCHANGED <<dbvars, srvvars, storevars, px, py>>

InitVerify ==
    /\ InitDb /\ InitServerIdle /\ InitStoreIdle
    /\ px \in VerifyEvents
    /\ py = NoPure
    /\ pr = <<>>

NextVerify == TamperHash \/ VerifyEvent

SpecVerify == InitVerify /\ [][NextVerify]_vars

(* ============================== properties ============================= *)

MintAnswered(t) ==
    /\ pc[t] = "done"
    /\ req[t].method = "PUT"
    /\ resp[t].kind \in {"minted", "existing", "mint_failed", "panic"}
    /\ resp[t].error \notin {"io", "read"}

(* C2: two concurrent mints for the same new path leave exactly one event  *)
(* at index 0 for the artifact, and the mint that loses the race returns   *)
(* the winner's mint response (event_hash, issued_at, OTS proof), not an   *)
(* error.                                                                  *)
C2_ConcurrentMintsSameResponse ==
    \A t \in Tasks, u \in Tasks :
        (/\ t # u
         /\ MintAnswered(t) /\ MintAnswered(u)
         /\ req[t].path = req[u].path
         /\ req[t].body = req[u].body
         /\ resp[t].kind = "minted")
        => /\ Cardinality({e \in events :
                  /\ e.artifact_id = ArtifactIdOf(artifacts, FileName(req[t].path))
                  /\ e.index_num = 0}) = 1
           /\ resp[u].kind \in {"minted", "existing"}
           /\ resp[u].event_hash = resp[t].event_hash
           /\ resp[u].issued_at = resp[t].issued_at
           /\ resp[u].ots_base64 = resp[t].ots_base64

C7_ManifestAfterPut ==
    [][\A t \in Tasks, p \in Paths :
          (HandleManifest(t, p) /\ p \in put_ok)
          => /\ resp'[t].kind = "manifest"
             /\ LET evs == Unwrap(resp'[t].manifest).events
                IN /\ Len(evs) = 1
                   /\ evs[1].index = 0
                   /\ evs[1].action = "mint"
                   /\ evs[1].prev_event_hash_hex = None
                   /\ evs[1].actors.creator_pubkey_hex = Some(SERVER_PUBLIC_KEY_HEX)]_vars

(* C8: every event present in the store has event_hash_hex equal to the    *)
(* canonical hash of its own fields and carries, for every role its action *)
(* requires, a signature that verifies against event_hash_hex under that   *)
(* role's public key.                                                      *)
C8_StoredEventsVerify ==
    \A e \in events :
        LET ev == EventOfRow(e)
            required == IF ev.action = "mint" THEN {"creator"}
                        ELSE {"prev_owner", "new_owner"}
            key(role) == ev.actors[role \o "_pubkey_hex"]
            sig(role) == ev.signatures[role \o "_sig_hex"]
        IN /\ ev.event_hash_hex =
                  compute_event_hash(ev.index, ev.action, ev.artifact_sha256_hex,
                                     ev.prev_event_hash_hex, ev.actors, ev.issued_at)
           /\ \A role \in required :
                 /\ IsSome(key(role)) /\ IsSome(sig(role))
                 /\ verify_event_signature(ev.event_hash_hex, Unwrap(sig(role)),
                                           Unwrap(key(role))) = "true"

(* Two store clients whose insert_event calls have returned, for transfers *)
(* of one artifact built on the same prev_event_hash_hex and index.        *)
RacingTransfers(c, d) ==
    /\ c # d
    /\ cres[c] # "" /\ cres[d] # ""
    /\ cargs[c].action = "transfer" /\ cargs[d].action = "transfer"
    /\ cargs[c].artifact_id = cargs[d].artifact_id
    /\ cargs[c].prev_event_hash_hex = cargs[d].prev_event_hash_hex
    /\ cargs[c].index = cargs[d].index

(* C3: two concurrent transfers for the same artifact built on the same    *)
(* prev_event_hash_hex (hence the same next index) result in exactly one   *)
(* committed event; the other insertion fails with a conflict and commits  *)
(* nothing (I/O failures and a missing artifact row aside).                *)
C3_ConcurrentTransfers ==
    \A c \in Clients, d \in Clients :
        (/\ RacingTransfers(c, d)
         /\ cres[c] \notin {"io", "foreign_key"}
         /\ cres[d] \notin {"io", "foreign_key"})
        => /\ {cres[c], cres[d]} = {"ok", "conflict"}
           /\ LET w == IF cres[c] = "ok" THEN c ELSE d
                  at == {e \in events : /\ e.artifact_id = cargs[w].artifact_id
                                        /\ e.index_num = cargs[w].index}
              IN /\ Cardinality(at) = 1
                 /\ \A e \in at :
                       /\ e.event_hash_hex = cargs[w].event_hash_hex
                       /\ {r \in event_actors : r.event_id = e.id}
                              = ActorRows(e.id, cargs[w].actors)
                       /\ {r \in event_signatures : r.event_id = e.id}
                              = SignatureRows(e.id, cargs[w].signatures)

C3_Witness ==
    \E c \in Clients, d \in Clients :
        /\ RacingTransfers(c, d)
        /\ cargs[c].index = 1
        /\ cargs[c].event_hash_hex # cargs[d].event_hash_hex
        /\ cres[c] = "ok" /\ cres[d] = "conflict"

(* C4: insert_event for an (artifact id, index) pair that already exists,  *)
(* or for an event hash that already exists on any artifact, fails with a  *)
(* conflict and leaves every table unchanged; (artifact id, index) and     *)
(* event hash are unique in every reachable state.                         *)
C4_DuplicateRejected ==
    /\ (last.client # 0 /\ (last.dup_index \/ last.dup_hash))
       => /\ last.result # "ok"
          /\ last.unchanged
          /\ last.fail_at # "event" => last.result = "conflict"
    /\ \A e \in events, f \in events :
          (\/ e.event_hash_hex = f.event_hash_hex
           \/ (e.artifact_id = f.artifact_id /\ e.index_num = f.index_num))
          => e = f

C4_Witness ==
    /\ last.client # 0
    /\ last.dup_hash /\ ~last.dup_index
    /\ last.result = "conflict"
    /\ events # {}

(* C5: event insertion is all-or-nothing: an event row is present if and   *)
(* only if all actor rows and all signature rows passed with it are        *)
(* present, and a failure at any step of insert_event leaves none of them. *)
C5_AllOrNothing ==
    /\ \A r \in event_actors \cup event_signatures : \E e \in events : e.id = r.event_id
    /\ \A e \in events :
          LET roles == IF e.action = "mint" THEN {"creator"} ELSE {"prev_owner", "new_owner"}
          IN /\ {r.role : r \in {r \in event_actors : r.event_id = e.id}} = roles
             /\ {r.role : r \in {r \in event_signatures : r.event_id = e.id}} = roles
    /\ last.client # 0 =>
          LET args == cargs[last.client]
          IN IF last.result = "ok"
             THEN /\ \E e \in events : /\ e.id = last.event_id
                                       /\ e.event_hash_hex = args.event_hash_hex
                  /\ {r \in event_actors : r.event_id = last.event_id}
                         = ActorRows(last.event_id, args.actors)
                  /\ {r \in event_signatures : r.event_id = last.event_id}
                         = SignatureRows(last.event_id, args.signatures)
             ELSE /\ last.unchanged
                  /\ last.dup_hash \/ ~\E e \in events :
                                          e.event_hash_hex = args.event_hash_hex

C5_Witness ==
    /\ last.client # 0
    /\ last.fail_at = "signatures"
    /\ last.result = "io"
    /\ cargs[last.client].action = "transfer"
    /\ events # {}

(* The roles whose (pubkey, signature) pair verify_event requires, in the  *)
(* order it looks at them.                                                 *)
RequiredRoles(action) ==
    IF action = "mint" THEN <<"creator">> ELSE <<"prev_owner", "new_owner">>

PairPresent(event, role) ==
    /\ IsSome(event.actors[role \o "_pubkey_hex"])
    /\ IsSome(event.signatures[role \o "_sig_hex"])

PairResult(event, role) ==
    verify_event_signature(event.event_hash_hex,
                           Unwrap(event.signatures[role \o "_sig_hex"]),
                           Unwrap(event.actors[role \o "_pubkey_hex"]))

(* C9: verify_event returns false whenever the recomputed canonical hash   *)
(* differs from the stored event_hash_hex; otherwise it returns true       *)
(* exactly when every signature the action requires verifies, and a        *)
(* missing required (pubkey, signature) pair is reported as an error, not  *)
(* as false: the missing-pair error unless a pair looked at before it      *)
(* could not be parsed.                                                    *)
C9_VerifyEvent ==
    pr # <<>> =>
        LET roles == RequiredRoles(px.action)
            n == Len(roles)
            recomputed == compute_event_hash(px.index, px.action, px.artifact_sha256_hex,
                              px.prev_event_hash_hex, px.actors, px.issued_at)
            missing == {i \in 1..n : ~PairPresent(px, roles[i])}
        IN IF recomputed # px.event_hash_hex
           THEN pr[1] = "false"
           ELSE /\ (pr[1] = "true") <=>
                       \A i \in 1..n : /\ PairPresent(px, roles[i])
                                       /\ PairResult(px, roles[i]) = "true"
                /\ missing # {} => pr[1] \in {"err_missing", "err_parse"}
                /\ \A i \in missing :
                      (\A j \in 1..(i - 1) : /\ PairPresent(px, roles[j])
                                             /\ PairResult(px, roles[j]) # "err_parse")
                      => pr[1] = "err_missing"
                /\ (missing = {} /\ \A i \in 1..n : PairResult(px, roles[i]) # "err_parse")
                   => pr[1] \in {"true", "false"}

C9_Witness ==
    /\ pr = <<"err_missing">>
    /\ px.action = "transfer"
    /\ PairPresent(px, "prev_owner")
    /\ PairResult(px, "prev_owner") = "true"
    /\ ~PairPresent(px, "new_owner")

(* The inputs of compute_event_hash that px and py stand for are equal:    *)
(* equal scalar fields and the same set of present actors.                 *)
SameInputs ==
    /\ px.index = py.index
    /\ px.action = py.action
    /\ px.artifact_sha256_hex = py.artifact_sha256_hex
    /\ px.prev_event_hash_hex = py.prev_event_hash_hex
    /\ px.issued_at = py.issued_at
    /\ {px.inits[i] : i \in DOMAIN px.inits} = {py.inits[i] : i \in DOMAIN py.inits}

(* C10: compute_event_hash is deterministic and injective: equal inputs    *)
(* give the same hash whatever the order in which the actor fields were    *)
(* constructed, and changing any single input field (adding or removing an *)
(* actor role included) gives a different serialization and hash.          *)
C10_HashInjective ==
    pr # <<>> =>
        /\ SameInputs => pr[1] = pr[2]
        /\ ~SameInputs =>
              /\ pr[1] # pr[2]
              /\ CanonicalJson(px.index, px.action, px.artifact_sha256_hex,
                               px.prev_event_hash_hex, ActorsOf(px.inits), px.issued_at)
                 # CanonicalJson(py.index, py.action, py.artifact_sha256_hex,
                                 py.prev_event_hash_hex, ActorsOf(py.inits), py.issued_at)

C10_Witness ==
    /\ pr # <<>>
    /\ Len(px.inits) = 3
    /\ px.inits # py.inits
    /\ SameInputs
    /\ pr[1] = pr[2]

(* ------------------- the OpenTimestamps functions ---------------------- *)
(* verify_timestamp, upgrade_timestamp and merge_timestamps applied to the *)
(* proofs, digests and environments of the model.  px is the input, py the *)
(* timestamp held between two upgrades, pr the calls made so far.          *)
OtsProofs == {f.b64 : f \in ProofFiles} \cup {"ots_proof_base64"}

OtsDigests == {Sha256Hex(c) : c \in Contents} \cup {"not-hex"}

(* The step trees merge_timestamps is applied to: those of the proofs and  *)
(* those the calendars answer with.                                        *)
MergeTrees ==
    {TimestampOf(Sha256Hex("x"), kind).first_step : kind \in ProofKinds \ {"upgraded"}} \cup
    {CalendarSubtree(reply, uri, "c") : reply \in CalendarReplies \ {"error", "notyet"},
                                        uri \in Uris}

(* A run either verifies and upgrades a proof in an environment, or       *)
(* merges step trees.                                                      *)
OtsInputs ==
    [run : {"proof"}, env : Envs, ots_proof_b64 : OtsProofs,
     artifact_sha256_hex : OtsDigests,
     tree : {TimestampOf(Sha256Hex("x"), "nonce").first_step}] \cup
    [run : {"merge"}, env : {CHOOSE e \in Envs : TRUE},
     ots_proof_b64 : {"ots_proof_base64"}, artifact_sha256_hex : {"not-hex"},
     tree : MergeTrees]

(* The timestamp a proof parses to, if it does. *)
ParsedProof(ots_proof_b64) ==
    IF \E f \in ProofFiles : f.b64 = ots_proof_b64
    THEN (CHOOSE f \in ProofFiles : f.b64 = ots_proof_b64).timestamp
    ELSE None

InitOts ==
    /\ InitDb /\ InitServerIdle /\ InitStoreIdle
    /\ px \in OtsInputs
    /\ py = ParsedProof(px.ots_proof_b64)
    /\ pr = <<>>

(* verify_timestamp(&ots_proof_b64, &artifact_sha256_hex). *)
VerifyTimestamp ==
    /\ px.run = "proof"
    /\ pr = <<>>
    /\ pr' = <<[call |-> "verify",
                out |-> verify_timestamp(px.env, px.ots_proof_b64, px.artifact_sha256_hex)]>>
    /\ UNCHANGED <<dbvars, srvvars, storevars, px, py>>

(* upgrade_timestamp(&mut detached_ots), up to twice on the same file. *)
UpgradeTimestamp ==
    /\ px.run = "proof"
    /\ IsSome(py)
    /\ \A i \in 1..Len(pr) : pr[i].call = "upgrade"
    /\ Len(pr) < MaxUpgrades
    /\ LET up == upgrade_timestamp(px.env, Unwrap(py))
       IN /\ pr' = Append(pr, [call |-> "upgrade", before |-> Unwrap(py), out |-> up])
          /\ py' = Some(up.timestamp)
    /\ UNCHANGED <<dbvars, srvvars, storevars, px>>

(* merge_timestamps(&mut original, &upgraded). *)
MergeTimestamps(upgraded) ==
    /\ px.run = "merge"
    /\ pr = <<>>
    /\ pr' = <<[call |-> "merge", original |-> px.tree, upgraded |-> upgraded,
                out |-> merge_timestamps(px.tree, upgraded)]>>
    /\ UNCHANGED <<dbvars, srvvars, storevars, px, py>>

NextOts ==
    \/ VerifyTimestamp
    \/ UpgradeTimestamp
    \/ \E upgraded \in MergeTrees : MergeTimestamps(upgraded)

SpecOts == InitOts /\ [][NextOts]_vars

(* C14: verify_timestamp on a proof that parses to a timestamp whose       *)
(* start digest differs from the digest it is given fails with the digest  *)
(* mismatch error, returns no result and makes no calendar and no block    *)
(* explorer request.                                                       *)
DigestDiffers ==
    /\ IsSome(ParsedProof(px.ots_proof_b64))
    /\ IsSome(hex_decode(px.artifact_sha256_hex))
    /\ Unwrap(ParsedProof(px.ots_proof_b64)).start_digest
           # Unwrap(hex_decode(px.artifact_sha256_hex))

C14_DigestMismatch ==
    (pr # <<>> /\ pr[1].call = "verify" /\ DigestDiffers)
        => /\ ~pr[1].out.ok
           /\ pr[1].out.error = "File does not match original!"
           /\ pr[1].out.results = <<>>
           /\ pr[1].out.calendar_requests = 0
           /\ pr[1].out.explorer_requests = 0

(* A verification of a proof for another digest, run while the calendar    *)
(* holds a confirmed subtree and the explorer the matching block.          *)
C14_Witness ==
    /\ pr # <<>> /\ pr[1].call = "verify" /\ DigestDiffers
    /\ px.ots_proof_b64 = B64(OtsBytes(Sha256Hex("x"), "nonce"))
    /\ px.env.calendar["calA"] = "confirmed"
    /\ px.env.explorer[1] = "00aa"
    /\ ~pr[1].out.ok

(* The steps of a tree that carry a Bitcoin attestation, depth first. *)
RECURSIVE BitcoinSteps(_)
BitcoinSteps(step) ==
    IF step.data.kind = "att"
    THEN IF step.data.att.type = "bitcoin" THEN <<step>> ELSE <<>>
    ELSE ConcatAll([i \in 1..Len(step.next) |-> BitcoinSteps(step.next[i])])

(* The explorer serves a block for the step's height and the step's output *)
(* is, or is not, that block's merkle root.                                *)
RootAgrees(env, step) ==
    /\ env.explorer[step.data.att.height] # "down"
    /\ Some(step.output) = hex_decode(env.explorer[step.data.att.height])

RootDiffers(env, step) ==
    /\ env.explorer[step.data.att.height] # "down"
    /\ Some(step.output) # hex_decode(env.explorer[step.data.att.height])

(* C15: verify_timestamp returns a result for a Bitcoin attestation of a   *)
(* height only if the output of the step carrying it equals the merkle     *)
(* root of the block the explorer reports for that height (so it returns   *)
(* no more results of a height than there are such steps), and when the    *)
(* output of such a step differs from the merkle root the call fails with  *)
(* the merkle root mismatch error.                                         *)
C15_MerkleRootChecked ==
    (pr # <<>> /\ pr[1].call = "verify" /\ IsSome(pr[1].out.timestamp))
        => LET out == pr[1].out
               steps == BitcoinSteps(Unwrap(out.timestamp).first_step)
           IN /\ \A h \in Heights :
                    Cardinality({i \in 1..Len(out.results) : out.results[i].height = h})
                        <= Cardinality({i \in 1..Len(steps) :
                                           /\ steps[i].data.att.height = h
                                           /\ RootAgrees(px.env, steps[i])})
              /\ (\E i \in 1..Len(steps) : RootDiffers(px.env, steps[i]))
                    => (~out.ok /\ out.error = "Merkle root mismatch!")

(* The heights of the Bitcoin attestations of a timestamp. *)
BitcoinHeights(timestamp) ==
    LET attestations == collect_attestations(timestamp.first_step)
    IN {attestations[i].height : i \in {j \in 1..Len(attestations) :
                                          attestations[j].type = "bitcoin"}}

(* The calendar of every pending attestation of the timestamp holds a      *)
(* confirmed subtree, and the timestamp has a pending attestation.         *)
CalendarsConfirmed(env, timestamp) ==
    LET pending == collect_pending_attestations(timestamp.first_step, timestamp.start_digest)
    IN /\ pending # <<>>
       /\ \A i \in 1..Len(pending) : env.calendar[pending[i][2]] = "confirmed"

(* C16: for a timestamp with a pending attestation whose calendar answers  *)
(* every query with the same confirmed subtree, the first upgrade_timestamp*)
(* returns changed = true, and a second one on the resulting timestamp     *)
(* returns changed = false and leaves the timestamp as it was.             *)
C16_UpgradeTwice ==
    (/\ Len(pr) = 2 /\ pr[1].call = "upgrade" /\ pr[2].call = "upgrade"
     /\ CalendarsConfirmed(px.env, pr[1].before))
        => /\ pr[1].out.changed
           /\ ~pr[2].out.changed
           /\ pr[2].out.timestamp = pr[2].before

(* C17: upgrade_timestamp returns changed = true exactly when the          *)
(* timestamp it leaves holds a Bitcoin attestation the timestamp it was    *)
(* given did not hold.                                                     *)
C17_ChangedIffBitcoinAdded ==
    (pr # <<>> /\ pr[1].call = "upgrade")
        => (pr[1].out.changed
               <=> BitcoinHeights(pr[1].out.timestamp) \ BitcoinHeights(pr[1].before) # {})

(* C18: merge_timestamps of a step tree with an identical copy of itself   *)
(* leaves the tree as it was and returns false (nothing changed).          *)
C18_MergeIdempotent ==
    (pr # <<>> /\ pr[1].call = "merge" /\ pr[1].original = pr[1].upgraded)
        => /\ pr[1].out.step = pr[1].original
           /\ ~pr[1].out.changed

(* No step of the tree has two children that steps_match takes for the     *)
(* same step while they differ.                                            *)
RECURSIVE DistinctSiblings(_)
DistinctSiblings(step) ==
    /\ \A i, j \in 1..Len(step.next) :
          steps_match(step.next[i], step.next[j]) => step.next[i] = step.next[j]
    /\ \A i \in 1..Len(step.next) : DistinctSiblings(step.next[i])

(* C18 (amended): merge_timestamps of a step tree with an identical copy   *)
(* of itself leaves the tree as it was and returns false, provided no step *)
(* of the tree has two different children with the same kind of data and   *)
(* the same output.                                                        *)
C18_MergeIdempotentDistinct ==
    (/\ pr # <<>> /\ pr[1].call = "merge" /\ pr[1].original = pr[1].upgraded
     /\ DistinctSiblings(pr[1].original))
        => /\ pr[1].out.step = pr[1].original
           /\ ~pr[1].out.changed

(* A tree with a fork of two pending attestations merged with itself: the  *)
(* merge walks the tree (pending attestations always count as new).        *)
C18_Witness ==
    /\ pr # <<>> /\ pr[1].call = "merge" /\ pr[1].original = pr[1].upgraded
    /\ pr[1].original = TimestampOf(Sha256Hex("x"), "two_pending").first_step
    /\ has_new_attestations(pr[1].original, pr[1].upgraded)
    /\ pr[1].out.step = pr[1].original
    /\ ~pr[1].out.changed

(* ------------------ the stamp status of recorded files ----------------- *)
(* compute_stamp_status and handle_ots_verify on a store whose artifacts   *)
(* are recorded, before the clock starts, under the path they are looked  *)
(* up by.  The clock counts minutes.  py is, per path, the time of the last verification attempt    *)
(* that confirmed nothing; pr is the last call and what it returned.       *)
StampProofs ==
    {B64("PLACEHOLDER_OTS_PROOF")} \cup
    {B64(OtsBytes(Sha256Hex("x"), kind)) : kind \in {"nonce", "two_pending", "two_heights"}}

InitStamp ==
    /\ InitDb /\ InitServerIdle /\ InitStoreIdle
    /\ px = NoPure
    /\ py = [p \in StorePaths |-> None]
    /\ pr = <<>>

(* A minute passes. *)
Minute ==
    /\ now < MaxMinutes
    /\ now' = now + 1
    /\ UNCHANGED <<dbvars, files, allow_delete, pc, req, loc, resp, started, put_ok,
                   storevars, purevars>>

(* The mint event of a recorded artifact, stored with its proof. *)
StampMint(file_path, ots_proof_b64) ==
    /\ now = 0
    /\ IsSome(get_artifact_by_path(file_path))
    /\ LET a == Unwrap(get_artifact_by_path(file_path))
           issued_at == Rfc3339(now)
           event_hash_hex == compute_event_hash(0, "mint", a.sha256_hex, None, MintActors,
                                                issued_at)
           r == insert_event([artifact_id |-> a.id, index |-> 0, action |-> "mint",
                              artifact_sha256_hex |-> a.sha256_hex,
                              prev_event_hash_hex |-> None, issued_at |-> issued_at,
                              event_hash_hex |-> event_hash_hex,
                              ots_proof_b64 |-> ots_proof_b64, actors |-> MintActors,
                              signatures |-> [NoSignatures EXCEPT !.creator_sig_hex =
                                  Some(sign_event_hash(event_hash_hex,
                                                       SERVER_PRIVATE_KEY_HEX))]],
                             "none")
       IN /\ r.result = "ok"
          /\ events' = r.events
          /\ event_actors' = r.event_actors
          /\ event_signatures' = r.event_signatures
    /\ UNCHANGED <<artifacts, srvvars, storevars, purevars, shares, share_downloads>>

(* compute_stamp_status(path, db) while the calendars and the explorer     *)
(* answer as env says.                                                     *)
StampStatusReturns(path, st) ==
    /\ calls' = calls + 1
    /\ LET unconfirmed == st.verify_calls = 1 /\ ~Unwrap(st.status).success
       IN /\ artifacts' = st.artifacts
          /\ events' = st.events
          /\ pr' = <<[call |-> "stamp", path |-> path, at |-> now,
                      before |-> get_artifact_by_path(path), attempted |-> py[path],
                      status |-> st.status, verify_calls |-> st.verify_calls,
                      requests |-> st.requests]>>
          /\ py' = [py EXCEPT ![path] = IF unconfirmed THEN Some(now)
                                        ELSE IF st.verify_calls = 1 THEN None ELSE @]
    /\ UNCHANGED <<event_actors, event_signatures, srvvars, cargs, cres, last, px,
                   shares, share_downloads>>

StampStatus(path, env) ==
    /\ calls < MaxStampCalls
    /\ StampStatusReturns(path, compute_stamp_status(path, env))

(* The body of POST ?verify: the proof and the digest to verify. *)
VerifyBodies ==
    [ots_proof_base64 : StampProofs \cup {"ots_proof_base64"},
     artifact_sha256 : {Sha256Hex(c) : c \in Contents}]

(* The answer of handle_ots_verify when verify_timestamp returns Err, as   *)
(* JSON and as a failed request.                                           *)
VerifyFailed_asError(error) ==
    [failed |-> TRUE, success |-> FALSE, results |-> None, error |-> Some(error)]

VerifyFailed(error) ==
    [failed |-> FALSE, success |-> FALSE, results |-> None, error |-> Some(error)]

(* The results map of handle_ots_verify after the first n results, as the  *)
(* set of its entries: a result enters the map when its chain has no entry *)
(* and replaces the entry of its chain when its timestamp is smaller.      *)
RECURSIVE results_map(_, _)
results_map(results, n) ==
    IF n = 0 THEN {}
    ELSE LET map == results_map(results, n - 1)
             vr == results[n]
             existing == {e \in map : e.chain = vr.chain}
         IN IF existing = {} THEN map \cup {vr}
            ELSE IF \E e \in existing : vr.timestamp < e.timestamp
            THEN (map \ existing) \cup {vr}
            ELSE map

(* The same map when the first result of a chain is never replaced. *)
EarliestResult_first(results) ==
    {results[i] : i \in {k \in 1..Len(results) :
                            \A l \in 1..(k - 1) : results[l].chain # results[k].chain}}

EarliestResult(results) == results_map(results, Len(results))

(* The environments of POST ?verify: those of the stamp status, with the   *)
(* explorer serving any of the block times for a height.                   *)
VerifyEnvs ==
    {[env EXCEPT !.time = time] :
        env \in StampEnvs, time \in [Heights -> {BlockTimestamp(h) : h \in Heights}]}

(* handle_ots_verify: POST ?verify with a JSON body, or with a body that   *)
(* does not parse.  The handler does not use the store; the runs make      *)
(* these requests while it is empty.                                       *)
OtsVerifyReturns(body_ok, v) ==
    /\ calls' = calls + 1
    /\ LET response ==
               IF ~body_ok
               THEN [failed |-> TRUE, success |-> FALSE, results |-> None,
                     error |-> Some("Failed to parse JSON request")]
               ELSE IF v.ok
               THEN [failed |-> FALSE, success |-> TRUE,
                     results |-> Some(EarliestResult(v.results)), error |-> None]
               ELSE VerifyFailed(v.error)
       IN pr' = <<[call |-> "verify", body_ok |-> body_ok, ok |-> v.ok,
                   verified |-> v.results, response |-> response]>>
    /\ UNCHANGED <<dbvars, srvvars, cargs, cres, last, px, py>>

HandleOtsVerify(body, body_ok, env) ==
    /\ artifacts = {}
    /\ calls < MaxStampCalls
    /\ OtsVerifyReturns(body_ok, verify_timestamp(env, body.ots_proof_base64,
                                                  body.artifact_sha256))

NextStamp ==
    \/ \E file_path \in StorePaths : now = 0 /\ StoreUpsert(file_path)
    \/ \E file_path \in StorePaths, ots_proof_b64 \in StampProofs :
          StampMint(file_path, ots_proof_b64)
    \/ \E path \in StorePaths, env \in StampEnvs : StampStatus(path, env)
    \/ \E body \in VerifyBodies, body_ok \in BOOLEAN, env \in VerifyEnvs :
          HandleOtsVerify(body, body_ok, env)
    \/ Minute

SpecStamp == InitStamp /\ [][NextStamp]_vars

C13_UnverifiedIsNotAnError ==
    /\ (pr # <<>> /\ pr[1].call = "stamp" /\ pr[1].verify_calls = 1
            /\ ~(IsSome(pr[1].status) /\ Unwrap(pr[1].status).success))
          => /\ IsSome(pr[1].status)
             /\ ~Unwrap(pr[1].status).success
             /\ Unwrap(pr[1].status).error = None
             /\ Unwrap(pr[1].status).results = None
    /\ (pr # <<>> /\ pr[1].call = "verify" /\ pr[1].body_ok /\ ~pr[1].ok)
          => /\ ~pr[1].response.failed
             /\ ~pr[1].response.success
             /\ pr[1].response.results = None

(* A status call whose verification of a placeholder proof failed. *)
C13_Witness ==
    /\ pr # <<>> /\ pr[1].call = "stamp" /\ pr[1].verify_calls = 1
    /\ pr[1].status = Pending(Sha256Hex("x"))
    /\ \E e \in events : e.ots_proof_b64 = B64("PLACEHOLDER_OTS_PROOF")

(* ------------------------------ shares --------------------------------- *)
(* The share tables of the store.  get_share returns the row of an id      *)
(* whether it is active or not; deactivate_share clears is_active;         *)
(* record_share_download appends a row; get_distribution_chain returns the *)
(* rows of a share in the order they were recorded.                        *)
ShareIds == {"s1", "s2"}

Users == {"alice", "bob"}

get_share(share_id) ==
    IF \E s \in shares : s.share_id = share_id
    THEN Some(CHOOSE s \in shares : s.share_id = share_id)
    ELSE None

create_share(share_id, file_path, sha256_hex, created_at, shared_by, pubkey_hex, sig_hex) ==
    shares \cup {[share_id |-> share_id, file_path |-> file_path,
                  file_sha256_hex |-> sha256_hex, created_at |-> created_at,
                  shared_by |-> shared_by, owner_pubkey_hex |-> pubkey_hex,
                  share_signature_hex |-> sig_hex, is_active |-> TRUE]}

deactivate_share(share_id) ==
    {IF s.share_id = share_id THEN [s EXCEPT !.is_active = FALSE] ELSE s : s \in shares}

record_share_download(share_id, ip, user_agent, downloader_pubkey) ==
    Append(share_downloads, [share_id |-> share_id, downloaded_at |-> Rfc3339(now),
                             ip |-> ip, user_agent |-> user_agent,
                             downloader_pubkey |-> downloader_pubkey])

get_distribution_chain(share_id) ==
    SelectSeq(share_downloads, LAMBDA d : d.share_id = share_id)

(* The hash a share signature is made over: the file hash, the share id    *)
(* and the creation time.                                                  *)
ShareHash(file_sha256_hex, share_id, created_at) ==
    Sha256Hex(file_sha256_hex \o "|" \o share_id \o "|" \o created_at)

generate_share_signature(file_sha256_hex, share_id, created_at, private_key_hex) ==
    sign_event_hash(ShareHash(file_sha256_hex, share_id, created_at), private_key_hex)

verify_share_signature(file_sha256_hex, share_id, created_at, signature_hex, pubkey_hex) ==
    verify_event_signature(ShareHash(file_sha256_hex, share_id, created_at), signature_hex,
                           pubkey_hex)

NoShareResp == [status |-> 0, headers |-> {}, body |-> None, json |-> None]

(* handle_create_share: POST <file>?share. *)
HandleCreateShare(path, user, share_id) ==
    /\ share_id \notin {s.share_id : s \in shares}
    /\ IF ~IsSome(files[path])
       THEN /\ pr' = <<[call |-> "create", share_id |-> share_id, before |-> None,
                        response |-> [NoShareResp EXCEPT !.status = 404]]>>
            /\ shares' = shares
       ELSE LET file_sha256_hex == Sha256Hex(Unwrap(files[path]))
                timestamp == Rfc3339(now)
                share_signature == generate_share_signature(file_sha256_hex, share_id,
                                       timestamp, SERVER_PRIVATE_KEY_HEX)
            IN /\ shares' = create_share(share_id, path, file_sha256_hex, timestamp, user,
                                         SERVER_PUBLIC_KEY_HEX, share_signature)
               /\ pr' = <<[call |-> "create", share_id |-> share_id, before |-> None,
                           response |-> [NoShareResp EXCEPT
                               !.status = 200,
                               !.json = Some([success |-> TRUE, share_id |-> share_id,
                                              created_at |-> timestamp,
                                              owner_pubkey |-> SERVER_PUBLIC_KEY_HEX,
                                              signature |-> share_signature,
                                              file_sha256 |-> file_sha256_hex])]]>>
    /\ UNCHANGED <<artifacts, events, event_actors, event_signatures, share_downloads,
                   srvvars, storevars, px, py>>

(* A caller of the store that creates a share signed with its own key      *)
(* pair: db.create_share(..).                                              *)
StoreCreateShare(path, user, share_id, private_key_hex) ==
    /\ share_id \notin {s.share_id : s \in shares}
    /\ IsSome(files[path])
    /\ LET file_sha256_hex == Sha256Hex(Unwrap(files[path]))
           timestamp == Rfc3339(now)
       IN shares' = create_share(share_id, path, file_sha256_hex, timestamp, user,
                                 PubKeyOf(private_key_hex),
                                 generate_share_signature(file_sha256_hex, share_id,
                                                          timestamp, private_key_hex))
    /\ pr' = <<>>
    /\ UNCHANGED <<artifacts, events, event_actors, event_signatures, share_downloads,
                   srvvars, storevars, px, py>>

(* The active test of handle_shared_file_access, without and with the test.*)
IsActive_always(share_info) == TRUE

IsActive(share_info) == share_info.is_active

(* handle_shared_file_access: GET /share/<id>.  record_ok says whether the *)
(* write of record_share_download succeeds; the handler discards its       *)
(* result (let _ =).                                                       *)
HandleSharedFileAccess(share_id, head_only, record_ok) ==
    /\ LET found == get_share(share_id)
           share_info == Unwrap(found)
           is_valid == verify_share_signature(share_info.file_sha256_hex, share_id,
                           share_info.created_at, share_info.share_signature_hex,
                           share_info.owner_pubkey_hex)
           response ==
               IF ~IsSome(found) THEN [NoShareResp EXCEPT !.status = 404]
               ELSE IF ~IsActive(share_info) THEN [NoShareResp EXCEPT !.status = 404]
               ELSE IF ~IsSome(files[share_info.file_path])
               THEN [NoShareResp EXCEPT !.status = 404]
               ELSE IF is_valid = "err_parse" THEN [NoShareResp EXCEPT !.status = 500]
               ELSE IF is_valid = "false" THEN [NoShareResp EXCEPT !.status = 400]
               ELSE [NoShareResp EXCEPT
                        !.status = 200,
                        !.headers = {<<"X-Share-Id", share_id>>,
                                     <<"X-Owner-Pubkey", share_info.owner_pubkey_hex>>,
                                     <<"X-Share-Signature", share_info.share_signature_hex>>,
                                     <<"X-File-SHA256", share_info.file_sha256_hex>>},
                        !.body = IF head_only THEN None
                                 ELSE files[share_info.file_path]]
       IN /\ (response.status = 200 /\ record_ok) => Len(share_downloads) < MaxDownloads
          /\ share_downloads' = IF response.status = 200 /\ record_ok
                                THEN record_share_download(share_id, None, None, None)
                                ELSE share_downloads
          /\ pr' = <<[call |-> "access", share_id |-> share_id, before |-> found,
                      response |-> response, recorded |-> share_downloads' # share_downloads]>>
    /\ UNCHANGED <<artifacts, events, event_actors, event_signatures, shares,
                   srvvars, storevars, px, py>>

(* handle_delete_share: DELETE <file>?share=<id>. *)
HandleDeleteShare(share_id, user) ==
    /\ LET found == get_share(share_id)
       IN IF ~IsSome(found)
          THEN /\ shares' = shares
               /\ pr' = <<[call |-> "delete", share_id |-> share_id, user |-> user,
                           before |-> found,
                           response |-> [NoShareResp EXCEPT !.status = 404]]>>
          ELSE IF /\ IsSome(Unwrap(found).shared_by) /\ IsSome(user)
                  /\ Unwrap(found).shared_by # user
          THEN /\ shares' = shares
               /\ pr' = <<[call |-> "delete", share_id |-> share_id, user |-> user,
                           before |-> found,
                           response |-> [NoShareResp EXCEPT !.status = 403]]>>
          ELSE /\ shares' = deactivate_share(share_id)
               /\ pr' = <<[call |-> "delete", share_id |-> share_id, user |-> user,
                           before |-> found,
                           response |-> [NoShareResp EXCEPT
                                            !.status = 200,
                                            !.json = Some([success |-> TRUE])]]>>
    /\ UNCHANGED <<artifacts, events, event_actors, event_signatures, share_downloads,
                   srvvars, storevars, px, py>>

(* The existence test of handle_distribution_chain, as it is and as a test *)
(* for an active share.                                                    *)
ChainFound_activeOnly(found) == IsSome(found) /\ Unwrap(found).is_active

ChainFound(found) == IsSome(found)

(* handle_distribution_chain: GET /share/<id>/chain. *)
HandleDistributionChain(share_id) ==
    /\ LET found == get_share(share_id)
       IN pr' = <<[call |-> "chain", share_id |-> share_id, before |-> found,
                   response |->
                       IF ~ChainFound(found) THEN [NoShareResp EXCEPT !.status = 404]
                       ELSE [NoShareResp EXCEPT
                                !.status = 200,
                                !.json = Some([success |-> TRUE, share_id |-> share_id,
                                               downloads |->
                                                   get_distribution_chain(share_id)])]]>>
    /\ UNCHANGED <<dbvars, srvvars, storevars, px, py>>

(* The bytes of a file that has a share are replaced on disk: by an upload *)
(* that overwrites it (File::create and the copy of the body in            *)
(* handle_upload) or by any other writer of the served directory.  The     *)
(* share handlers read no table an upload writes.                          *)
SharedFileOverwritten(path) ==
    /\ \E s \in shares : s.file_path = path
    /\ files[path] = Some("x")
    /\ files' = [files EXCEPT ![path] = Some("y")]
    /\ pr' = <<>>
    /\ UNCHANGED <<dbvars, now, allow_delete, pc, req, loc, resp, started, put_ok,
                   storevars, px, py>>

InitShare ==
    /\ InitDb /\ InitStoreIdle
    /\ files \in [Paths -> {None, Some("x")}]
    /\ now = 0
    /\ allow_delete = TRUE
    /\ pc = [t \in Tasks |-> "idle"]
    /\ req = [t \in Tasks |-> NoReq]
    /\ loc = [t \in Tasks |-> NoLoc]
    /\ resp = [t \in Tasks |-> NoResp]
    /\ started = 0
    /\ put_ok = {}
    /\ px = NoPure
    /\ py = NoPure
    /\ pr = <<>>

RequestUsers == {None} \cup {Some(u) : u \in Users}

NextShare ==
    \/ \E path \in Paths, user \in RequestUsers, share_id \in ShareIds :
          HandleCreateShare(path, user, share_id)
    \/ \E path \in Paths, user \in RequestUsers, share_id \in ShareIds :
          StoreCreateShare(path, user, share_id, "sk1")
    \/ \E share_id \in ShareIds \cup {"s0"}, head_only \in BOOLEAN, record_ok \in BOOLEAN :
          HandleSharedFileAccess(share_id, head_only, record_ok)
    \/ \E share_id \in ShareIds \cup {"s0"}, user \in RequestUsers :
          HandleDeleteShare(share_id, user)
    \/ \E share_id \in ShareIds \cup {"s0"} : HandleDistributionChain(share_id)

SpecShare == InitShare /\ [][NextShare]_vars

(* C19: GET /share/<id> for an id that has no share row, or whose row is   *)
(* not active, answers 404 with no body and none of the share headers, and *)
(* records no download.                                                    *)
C19_MissingOrInactiveShare ==
    (/\ pr # <<>> /\ pr[1].call = "access"
     /\ (~IsSome(pr[1].before) \/ ~Unwrap(pr[1].before).is_active))
        => /\ pr[1].response.status = 404
           /\ pr[1].response.body = None
           /\ pr[1].response.headers = {}
           /\ ~pr[1].recorded

(* A GET of a deactivated share whose file exists and whose signature      *)
(* verifies, answered 404.                                                 *)
C19_Witness ==
    /\ pr # <<>> /\ pr[1].call = "access"
    /\ IsSome(pr[1].before) /\ ~Unwrap(pr[1].before).is_active
    /\ IsSome(files[Unwrap(pr[1].before).file_path])
    /\ Unwrap(pr[1].before).owner_pubkey_hex = PubKeyOf("sk1")
    /\ pr[1].response.status = 404
    /\ ~pr[1].recorded

(* C20: a deactivated share stays deactivated and keeps its download       *)
(* records: no step activates the row of an inactive share, removes it or  *)
(* changes the records of its distribution chain; GET /share/<id> for it   *)
(* answers 404; and GET /share/<id>/chain for it answers 200 with exactly  *)
(* the records of the share in the store.                                  *)
InactiveShareAnswers ==
    (pr # <<>> /\ IsSome(pr[1].before) /\ ~Unwrap(pr[1].before).is_active)
        => /\ pr[1].call = "access" => pr[1].response.status = 404
           /\ pr[1].call = "chain"
                 => /\ pr[1].response.status = 200
                    /\ Unwrap(pr[1].response.json).downloads
                           = get_distribution_chain(pr[1].share_id)

InactiveShareKept ==
    \A s \in shares :
        ~s.is_active => /\ s \in shares'
                        /\ get_distribution_chain(s.share_id)'
                               = get_distribution_chain(s.share_id)

C20_DeactivatedShare == []InactiveShareAnswers /\ [][InactiveShareKept]_vars

(* The chain of a deactivated share, asked after a GET of the share was    *)
(* answered 404, returned with the download recorded before the DELETE.    *)
C20_Witness ==
    /\ pr # <<>> /\ pr[1].call = "chain"
    /\ IsSome(pr[1].before) /\ ~Unwrap(pr[1].before).is_active
    /\ pr[1].response.status = 200
    /\ Len(Unwrap(pr[1].response.json).downloads) > 0

(* C21: a DELETE ?share=<id> from a requester who is not the user that     *)
(* issued the share (another user, or a requester without a user) is       *)
(* answered 403 and leaves the share row as it was.                        *)
C21_OnlyIssuerDeactivates ==
    (/\ pr # <<>> /\ pr[1].call = "delete"
     /\ IsSome(pr[1].before)
     /\ IsSome(Unwrap(pr[1].before).shared_by)
     /\ pr[1].user # Unwrap(pr[1].before).shared_by)
        => /\ pr[1].response.status = 403
           /\ get_share(pr[1].share_id) = pr[1].before

(* C22: a GET /share/<id> that serves the file of an active share has      *)
(* verified the stored signature over (file hash, share id, created-at)    *)
(* against the owner key and appends exactly one download record of that   *)
(* share; one whose signature check fails answers 400 and appends nothing; *)
(* and no step changes, removes or reorders a record already there.        *)
ResolutionRecorded ==
    (pr # <<>> /\ pr[1].call = "access")
        => LET share_info == Unwrap(pr[1].before)
               is_valid == verify_share_signature(share_info.file_sha256_hex,
                               pr[1].share_id, share_info.created_at,
                               share_info.share_signature_hex, share_info.owner_pubkey_hex)
           IN /\ pr[1].response.status = 200
                    => /\ IsSome(pr[1].before) /\ share_info.is_active
                       /\ is_valid = "true"
                       /\ pr[1].recorded
                       /\ share_downloads[Len(share_downloads)].share_id = pr[1].share_id
              /\ (/\ IsSome(pr[1].before) /\ share_info.is_active
                  /\ IsSome(files[share_info.file_path]) /\ is_valid = "false")
                    => pr[1].response.status = 400 /\ ~pr[1].recorded

RecordsAppendOnly ==
    /\ Len(share_downloads') \in {Len(share_downloads), Len(share_downloads) + 1}
    /\ SubSeq(share_downloads', 1, Len(share_downloads)) = share_downloads

MaxHttpRequests == 2

MaxFileLen == 2

HttpFiles == {"/srv/a.txt", "/srv/d/a.txt"}

HttpDirs == {"/srv/d"}

HttpPaths == HttpFiles \cup HttpDirs

HttpBodies == {"x", "<20MiB>"}

(* The bytes that can have reached the disk when the body stream fails. *)
Received(body) == IF body = "<20MiB>" THEN {"", "<20MiB-1>", "<20MiB>"} ELSE {"", body}

is_miss(p) == ~IsSome(files[p])

is_dir(p) == files[p] = DirEntry

is_file(p) == IsSome(files[p]) /\ files[p] # DirEntry

(* path.starts_with(dir). *)
Under(dir, p) ==
    \/ dir = "/srv"
    \/ dir = p
    \/ dir = "/srv/d" /\ p = "/srv/d/a.txt"

(* --auth: no rule, or user:pass@/:rw, user2:pass2@/ and                   *)
(* user3:pass3@/d:rw, without or with the anonymous rule @/.               *)
AuthConfigs == {"open", "users", "users+anonymous"}

AuthRules(auth) ==
    IF auth = "open" THEN {}
    ELSE {[user |-> Some("user"), path |-> "/srv", perm |-> "rw"],
          [user |-> Some("user2"), path |-> "/srv", perm |-> "ro"],
          [user |-> Some("user3"), path |-> "/srv/d", perm |-> "rw"]}
         \cup (IF auth = "users+anonymous"
               THEN {[user |-> None, path |-> "/srv", perm |-> "ro"]} ELSE {})

(* The Authorization header: absent, the valid credentials of a user, or   *)
(* credentials that match no user.                                         *)
Authorizations == {None, Some("user"), Some("user2"), Some("user3"), Some("bad")}

ReadOnlyMethods == {"GET", "HEAD", "OPTIONS", "PROPFIND"}

(* AccessPaths::guard: the permission of the rules of one user on a path   *)
(* for a method, None when no rule covers the path or the method writes    *)
(* and the permission is read-only.                                        *)
AccessOf(rules, path, method) ==
    LET covering == {r \in rules : Under(r.path, path)}
    IN IF covering = {} THEN None
       ELSE LET rule == CHOOSE r \in covering : \A q \in covering : Under(q.path, r.path)
            IN IF method \in ReadOnlyMethods \/ rule.perm = "rw" THEN Some(rule.perm)
               ELSE None

(* AccessControl::guard: (user, access paths). *)
guard(auth, path, method, authorization) ==
    LET rules == AuthRules(auth)
    IN IF {r \in rules : IsSome(r.user)} = {} THEN <<None, Some("rw")>>
       ELSE IF IsSome(authorization)
       THEN IF \E r \in rules : r.user = authorization
            THEN <<authorization,
                   AccessOf({r \in rules : r.user = authorization}, path, method)>>
            ELSE <<None, None>>
       ELSE <<None, AccessOf({r \in rules : r.user = None}, path, method)>>

(* Server::handle, the match on the guard's result: the status it answers  *)
(* with, 0 when the request goes on to the handlers; and the same match    *)
(* letting every request through.                                          *)
GuardRefusal_none(g) == 0

GuardRefusal(g) ==
    IF g[1] = None /\ g[2] = None THEN 401
    ELSE IF g[2] = None THEN 403
    ELSE 0

(* extract_dest, the match on the guard's result for the destination, and  *)
(* the same match letting every destination through.                       *)
DestRefusal_none(dest_guard) == 0

DestRefusal(dest_guard) == IF dest_guard[2] = None THEN 403 ELSE 0

(* A request is taken when the one before it has been answered.  The runs *)
(* of a server with auth rules make one request; without rules the guard   *)
(* does not read the Authorization header, and the runs send none.         *)
HttpIdle ==
    /\ pc[1] \in {"idle", "done"}
    /\ started < (IF px.auth = "open" THEN MaxHttpRequests ELSE 1)

Sent(authorization) == px.auth = "open" => authorization = None

(* The request, what the guard said and the answer, with the served tree   *)
(* and the tables as they were when the request arrived.                   *)
HttpAnswer(request, g, status, body) ==
    pr' = <<[request |-> request, guard |-> g, status |-> status, body |-> body,
             files |-> files, tables |-> dbvars]>>

NoHttpReq == [method |-> "", path |-> "", authorization |-> None, query |-> "",
              range |-> None, dest |-> None, body |-> "", body_ok |-> TRUE,
              received |-> "", dest_guard |-> <<None, None>>, upload |-> FALSE]

(* The GET branch of Server::handle for a request the guard let through:   *)
(* a directory is listed, a file is sent or, with ?manifest=json, its      *)
(* manifest (handle_provenance_manifest), anything else is not found.      *)
GetAnswer(path, query) ==
    LET manifest == get_manifest_by_path(path)
    IN IF is_dir(path) THEN [status |-> 200, body |-> None]
       ELSE IF is_file(path)
       THEN IF query # "manifest" THEN [status |-> 200, body |-> files[path]]
            ELSE IF IsSome(manifest) THEN [status |-> 200, body |-> manifest]
            ELSE [status |-> 404, body |-> None]
       ELSE [status |-> 404, body |-> None]

(* GET <path> and GET <file>?manifest=json. *)
HttpGet(authorization, path, query) ==
    /\ HttpIdle /\ Sent(authorization)
    /\ started' = started + 1
    /\ LET g == guard(px.auth, path, "GET", authorization)
           answer == GetAnswer(path, query)
           status == IF GuardRefusal(g) # 0 THEN GuardRefusal(g) ELSE answer.status
           body == IF GuardRefusal(g) # 0 THEN None ELSE answer.body
       IN HttpAnswer([NoHttpReq EXCEPT !.method = "GET", !.path = path,
                                       !.authorization = authorization, !.query = query],
                     g, status, body)
    /\ UNCHANGED <<dbvars, files, now, allow_delete, pc, req, loc, resp, put_ok, storevars,
                   px, py>>

(* PUT <path>: the PUT branch of Server::handle and handle_upload without  *)
(* an offset; a file that was written goes on to create_mint_event.        *)
HttpPut(authorization, path, body, body_ok, received) ==
    /\ HttpIdle /\ Sent(authorization)
    /\ started' = started + 1
    /\ LET g == guard(px.auth, path, "PUT", authorization)
           refused == IF GuardRefusal(g) # 0 THEN GuardRefusal(g)
                      ELSE IF \/ is_dir(path) \/ ~px.allow_upload
                              \/ (~allow_delete /\ FileSize(path) > 0)
                      THEN 403 ELSE 0
           up == handle_upload(path, None, body, body_ok, received)
           status == IF refused # 0 THEN refused ELSE up.status
       IN /\ files' = IF refused # 0 THEN files ELSE up.files
          /\ req' = [req EXCEPT ![1] = [method |-> "PUT", path |-> path, body |-> body]]
          /\ IF status = 201
             THEN /\ pc' = [pc EXCEPT ![1] = "mint_read"]
                  /\ resp' = [resp EXCEPT ![1] = NoResp]
                  /\ loc' = [loc EXCEPT ![1] = NoLoc]
             ELSE Reply(1, [NoResp EXCEPT !.status = status,
                                          !.kind = IF refused # 0 THEN "forbidden"
                                                   ELSE "upload_failed"])
          /\ HttpAnswer([NoHttpReq EXCEPT !.method = "PUT", !.path = path,
                                          !.authorization = authorization, !.body = body,
                                          !.body_ok = body_ok, !.received = received,
                                          !.upload = (refused = 0)],
                        g, status, None)
    /\ UNCHANGED <<dbvars, now, allow_delete, put_ok, storevars, px, py>>

(* parse_upload_offset: Ok(None) without the header, Ok(Some(offset)) for  *)
(* "append" and for a range, Err for anything else.                        *)
UpdateRanges == {None, Some("append"), Some("bytes=0-"), Some("invalid")}

parse_upload_offset(range, size) ==
    IF range = None THEN [ok |-> TRUE, offset |-> None]
    ELSE IF range = Some("append") THEN [ok |-> TRUE, offset |-> Some(size)]
    ELSE IF range = Some("bytes=0-") /\ size > 0 THEN [ok |-> TRUE, offset |-> Some(0)]
    ELSE [ok |-> FALSE, offset |-> None]

(* PATCH <path>: the PATCH branch of Server::handle and handle_upload with *)
(* an offset.  Opening a directory for writing fails.                      *)
HttpPatch(authorization, path, range, body, body_ok, received) ==
    /\ HttpIdle /\ Sent(authorization)
    /\ started' = started + 1
    /\ range = Some("append") => FileSize(path) + BytesLen(body) <= MaxFileLen
    /\ range = Some("bytes=0-") => BytesLen(body) >= FileSize(path) /\ received \in {"", body}
    /\ LET g == guard(px.auth, path, "PATCH", authorization)
           size == FileSize(path)
           parsed == parse_upload_offset(range, size)
           refused == IF GuardRefusal(g) # 0 THEN GuardRefusal(g)
                      ELSE IF is_miss(path) THEN 404
                      ELSE IF ~px.allow_upload THEN 403
                      ELSE IF ~parsed.ok THEN 400
                      ELSE IF ~IsSome(parsed.offset) THEN 405
                      ELSE IF is_dir(path) THEN 500
                      ELSE 0
           up == handle_upload(path, parsed.offset, body, body_ok, received)
           status == IF refused # 0 THEN refused ELSE up.status
       IN /\ files' = IF refused # 0 THEN files ELSE up.files
          /\ HttpAnswer([NoHttpReq EXCEPT !.method = "PATCH", !.path = path,
                                          !.authorization = authorization, !.range = range,
                                          !.body = body, !.body_ok = body_ok,
                                          !.received = received,
                                          !.upload = (refused = 0)],
                        g, status, None)
    /\ UNCHANGED <<dbvars, now, allow_delete, pc, req, loc, resp, put_ok, storevars, px, py>>

(* DELETE <path>: the DELETE branch of Server::handle and handle_delete    *)
(* (remove_file, or remove_dir_all for a directory).                       *)
HttpDelete(authorization, path) ==
    /\ HttpIdle /\ Sent(authorization)
    /\ started' = started + 1
    /\ LET g == guard(px.auth, path, "DELETE", authorization)
           status == IF GuardRefusal(g) # 0 THEN GuardRefusal(g)
                     ELSE IF ~allow_delete THEN 403
                     ELSE IF is_miss(path) THEN 404
                     ELSE 204
       IN /\ files' = IF status # 204 THEN files
                      ELSE [q \in DOMAIN files |->
                               IF q = path \/ (is_dir(path) /\ Under(path, q)) THEN None
                               ELSE files[q]]
          /\ HttpAnswer([NoHttpReq EXCEPT !.method = "DELETE", !.path = path,
                                          !.authorization = authorization],
                        g, status, None)
    /\ UNCHANGED <<dbvars, now, allow_delete, pc, req, loc, resp, put_ok, storevars, px, py>>

(* COPY <path> with a Destination header: the COPY branch, extract_dest    *)
(* and webdav::handle_copy.  dest = None is a header that does not parse.  *)
HttpCopy(authorization, path, dest) ==
    /\ HttpIdle /\ Sent(authorization)
    /\ started' = started + 1
    /\ dest # Some(path)
    /\ LET g == guard(px.auth, path, "COPY", authorization)
           dest_guard == IF IsSome(dest)
                         THEN guard(px.auth, Unwrap(dest), "COPY", authorization)
                         ELSE <<None, None>>
           status == IF GuardRefusal(g) # 0 THEN GuardRefusal(g)
                     ELSE IF ~px.allow_upload THEN 403
                     ELSE IF is_miss(path) THEN 404
                     ELSE IF ~IsSome(dest) THEN 400
                     ELSE IF DestRefusal(dest_guard) # 0 THEN DestRefusal(dest_guard)
                     ELSE IF is_dir(path) THEN 403
                     ELSE 204
       IN /\ files' = IF status # 204 THEN files
                      ELSE [ensure_path_parent(files, Unwrap(dest))
                               EXCEPT ![Unwrap(dest)] = files[path]]
          /\ HttpAnswer([NoHttpReq EXCEPT !.method = "COPY", !.path = path,
                                          !.authorization = authorization, !.dest = dest,
                                          !.dest_guard = dest_guard],
                        g, status, None)
    /\ UNCHANGED <<dbvars, now, allow_delete, pc, req, loc, resp, put_ok, storevars, px, py>>

(* MOVE <file> with a Destination header: the MOVE branch, extract_dest    *)
(* and webdav::handle_move (fs::rename).                                   *)
HttpMove(authorization, path, dest) ==
    /\ HttpIdle /\ Sent(authorization)
    /\ started' = started + 1
    /\ dest # Some(path)
    /\ ~is_dir(path)
    /\ LET g == guard(px.auth, path, "MOVE", authorization)
           dest_guard == IF IsSome(dest)
                         THEN guard(px.auth, Unwrap(dest), "MOVE", authorization)
                         ELSE <<None, None>>
           status == IF GuardRefusal(g) # 0 THEN GuardRefusal(g)
                     ELSE IF ~px.allow_upload \/ ~allow_delete THEN 403
                     ELSE IF is_miss(path) THEN 404
                     ELSE IF ~IsSome(dest) THEN 400
                     ELSE IF DestRefusal(dest_guard) # 0 THEN DestRefusal(dest_guard)
                     ELSE 204
       IN /\ files' = IF status # 204 THEN files
                      ELSE [ensure_path_parent(files, Unwrap(dest))
                               EXCEPT ![Unwrap(dest)] = files[path], ![path] = None]
          /\ HttpAnswer([NoHttpReq EXCEPT !.method = "MOVE", !.path = path,
                                          !.authorization = authorization, !.dest = dest,
                                          !.dest_guard = dest_guard],
                        g, status, None)
    /\ UNCHANGED <<dbvars, now, allow_delete, pc, req, loc, resp, put_ok, storevars, px, py>>

(* The server's arguments --allow-upload and --auth. *)
ServerArgs == [allow_upload : BOOLEAN, auth : AuthConfigs]

InitHttp ==
    /\ InitDb /\ InitStoreIdle
    /\ files \in {fs \in [HttpPaths -> {None, Some("x"), DirEntry}] :
                     /\ fs["/srv/a.txt"] # DirEntry
                     /\ fs["/srv/d"] \in {None, DirEntry}
                     /\ fs["/srv/d/a.txt"] # DirEntry
                     /\ IsSome(fs["/srv/d/a.txt"]) => IsSome(fs["/srv/d"])}
    /\ now = 0
    /\ allow_delete \in BOOLEAN
    /\ pc = [t \in Tasks |-> "idle"]
    /\ req = [t \in Tasks |-> NoReq]
    /\ loc = [t \in Tasks |-> NoLoc]
    /\ resp = [t \in Tasks |-> NoResp]
    /\ started = 0
    /\ put_ok = {}
    /\ px \in ServerArgs
    /\ py = NoPure
    /\ pr = <<>>

NextHttp ==
    \/ \E authorization \in Authorizations, path \in HttpPaths, query \in {"", "manifest"} :
          HttpGet(authorization, path, query)
    \/ \E authorization \in Authorizations, path \in HttpPaths, body \in HttpBodies,
          body_ok \in BOOLEAN :
          \E received \in IF body_ok THEN {""} ELSE Received(body) :
              HttpPut(authorization, path, body, body_ok, received)
    \/ \E authorization \in Authorizations, path \in HttpPaths, range \in UpdateRanges,
          body_ok \in BOOLEAN :
          \E received \in IF body_ok THEN {""} ELSE {"", "y"} :
              HttpPatch(authorization, path, range, "y", body_ok, received)
    \/ \E authorization \in Authorizations, path \in HttpPaths :
          HttpDelete(authorization, path)
    \/ \E authorization \in Authorizations, path \in HttpPaths,
          dest \in {None} \cup {Some(d) : d \in HttpFiles} :
          HttpCopy(authorization, path, dest)
    \/ \E authorization \in Authorizations, path \in HttpPaths,
          dest \in {None} \cup {Some(d) : d \in HttpFiles} :
          HttpMove(authorization, path, dest)
    \/ MintRead(1)
    \/ MintUpsert(1)
    \/ MintNextIndex(1)
    \/ MintGetManifest(1)
    \/ \E env \in StampEnvs : MintStampStatus(1, env)
    \/ \E stamped \in BOOLEAN : MintStamp(1, stamped)
    \/ \E fail_at \in FailPoints : MintInsert(1, fail_at)

SpecHttp == InitHttp /\ [][NextHttp]_vars

(* The last request, once it has been answered. *)
Answered == pr # <<>> /\ pc[1] \in {"idle", "done"}

LastRequest == pr[1].request

(* The manifests the store holds for a path: the one recorded under the    *)
(* path itself and the one recorded under its file name.                   *)
RecordedManifests(path) ==
    {m \in {get_manifest_by_path(path), get_manifest_by_path(FileName(path))} : IsSome(m)}

DeleteKeepsRows ==
    (pr' # pr /\ pr'[1].request.method = "DELETE") => UNCHANGED dbvars

ManifestOutlivesFile ==
    (/\ Answered /\ LastRequest.method = "DELETE" /\ pr[1].status = 204
     /\ RecordedManifests(LastRequest.path) # {})
    => /\ GetAnswer(LastRequest.path, "manifest").status = 200
       /\ GetAnswer(LastRequest.path, "manifest").body \in RecordedManifests(LastRequest.path)

(* C23: an HTTP DELETE leaves every artifact, event, actor, signature,     *)
(* share and download row unchanged, and after the DELETE of a file whose  *)
(* manifest is recorded, GET <path>?manifest=json still returns that       *)
(* manifest.                                                               *)
C23_ManifestOutlivesFile == [][DeleteKeepsRows]_vars /\ []ManifestOutlivesFile

(* The path whose bytes the last request wrote. *)
WrittenPath ==
    IF LastRequest.method \in {"COPY", "MOVE"} THEN Unwrap(LastRequest.dest)
    ELSE LastRequest.path

SuccessfulWrite ==
    /\ Answered
    /\ LastRequest.method \in {"PUT", "PATCH", "COPY", "MOVE"}
    /\ pr[1].status \in {201, 204}

ArtifactOfBytes(path) ==
    \E a \in artifacts :
        /\ a.file_path \in {path, FileName(path)}
        /\ a.sha256_hex = Sha256Hex(Unwrap(files[path]))

(* C24: after every successful write (PUT, PATCH, COPY destination, MOVE   *)
(* destination) the store holds an artifact for the written path whose     *)
(* sha256 is the hash of the bytes now on disk.                            *)
C24_EveryWriteMints == SuccessfulWrite => ArtifactOfBytes(WrittenPath)

(* The last request was an upload that reached handle_upload and whose     *)
(* body stream failed.                                                     *)
AbortedUpload == Answered /\ LastRequest.upload /\ ~LastRequest.body_ok

(* The file as the failed stream left it: the bytes received, written at   *)
(* the request's offset into the file the request found.                   *)
PartialFile ==
    LET before == pr[1].files[LastRequest.path]
        content == IF IsSome(before) THEN Unwrap(before) ELSE ""
        offset == IF LastRequest.method = "PUT" THEN None
                  ELSE parse_upload_offset(LastRequest.range, BytesLen(content)).offset
    IN WriteAt(content, offset, LastRequest.received)

FailureReported == pr[1].status = 500 /\ dbvars = pr[1].tables

PartialKept == files[LastRequest.path] = Some(PartialFile)

PartialRemoved == files[LastRequest.path] = None

(* C25: when an upload's body stream fails, the partial file is kept if    *)
(* its size has reached RESUMABLE_UPLOAD_MIN_SIZE and removed if it is     *)
(* below it; the request reports the failure and no mint event is created. *)
C25_PartialKeptIffResumable ==
    AbortedUpload =>
        /\ BytesLen(PartialFile) >= RESUMABLE_UPLOAD_MIN_SIZE => PartialKept
        /\ BytesLen(PartialFile) < RESUMABLE_UPLOAD_MIN_SIZE => PartialRemoved
        /\ FailureReported

(* C25 as the code has it: the partial file of a PUT is kept if its size   *)
(* has reached RESUMABLE_UPLOAD_MIN_SIZE and removed if it is below it;    *)
(* the file of a PATCH is kept whatever its size; the request reports the  *)
(* failure and no mint event is created.                                   *)
C25_PutPartialKeptIffResumable ==
    AbortedUpload =>
        /\ (LastRequest.method = "PUT" /\ BytesLen(PartialFile) < RESUMABLE_UPLOAD_MIN_SIZE)
               => PartialRemoved
        /\ (LastRequest.method = "PATCH" \/ BytesLen(PartialFile) >= RESUMABLE_UPLOAD_MIN_SIZE)
               => PartialKept
        /\ FailureReported

C25_Witness ==
    /\ AbortedUpload /\ LastRequest.method = "PUT"
    /\ LastRequest.received = "<20MiB>"
    /\ PartialKept /\ FailureReported

C25_WitnessRemoved ==
    /\ AbortedUpload /\ LastRequest.method = "PUT"
    /\ LastRequest.received = "<20MiB-1>"
    /\ PartialRemoved /\ FailureReported

(* What the guard yielded for the last request. *)
GuardUser == pr[1].guard[1]

GuardAccess == pr[1].guard[2]

NothingWritten == files = pr[1].files /\ dbvars = pr[1].tables /\ pc[1] \in {"idle", "done"}

(* C27: a request for which the guard yields neither user nor access is    *)
(* answered 401, one for which it yields a user but no access is answered  *)
(* 403, and in both cases no file is created, modified or deleted and no   *)
(* provenance row is written.                                              *)
C27_GuardBeforeHandlers ==
    (pr # <<>> /\ GuardAccess = None) =>
        /\ GuardUser = None => pr[1].status = 401
        /\ GuardUser # None => pr[1].status = 403
        /\ NothingWritten

C27_Witness ==
    /\ pr # <<>> /\ GuardAccess = None /\ GuardUser = Some("user2")
    /\ LastRequest.method = "PUT" /\ ~IsSome(files[LastRequest.path])
    /\ px.allow_upload
    /\ pr[1].status = 403 /\ NothingWritten

C27_WitnessUnauthorized ==
    /\ pr # <<>> /\ GuardAccess = None /\ GuardUser = None
    /\ LastRequest.method = "DELETE" /\ IsSome(pr[1].files[LastRequest.path])
    /\ allow_delete
    /\ pr[1].status = 401 /\ NothingWritten

CopyOrMove == pr # <<>> /\ LastRequest.method \in {"COPY", "MOVE"}

DestAccess == LastRequest.dest_guard[2]

(* C28: a COPY or MOVE is carried out only if the guard grants access to   *)
(* the source and to the destination; when the guard grants the source     *)
(* but not the destination, the answer for an existing source is 403 and   *)
(* neither the source nor the destination is changed.                      *)
C28_DestinationGuarded ==
    CopyOrMove =>
        /\ pr[1].status = 204 => GuardAccess # None /\ DestAccess # None
        /\ (GuardAccess # None /\ IsSome(LastRequest.dest) /\ DestAccess = None)
               => /\ NothingWritten
                  /\ IsSome(pr[1].files[LastRequest.path]) => pr[1].status = 403

C28_Witness ==
    /\ CopyOrMove /\ LastRequest.method = "MOVE"
    /\ GuardUser = Some("user3") /\ GuardAccess # None
    /\ LastRequest.path = "/srv/d/a.txt" /\ LastRequest.dest = Some("/srv/a.txt")
    /\ IsSome(pr[1].files["/srv/d/a.txt"])
    /\ px.allow_upload /\ allow_delete
    /\ DestAccess = None /\ pr[1].status = 403 /\ NothingWritten

(* POST ?verify was answered with success. *)
VerifySucceeded == pr # <<>> /\ pr[1].call = "verify" /\ pr[1].response.success

Reversed(results) == [i \in 1..Len(results) |-> results[Len(results) + 1 - i]]

(* Every chain with a verified attestation has one entry, and the entry of *)
(* a chain is a verified attestation of the chain with the smallest        *)
(* timestamp.                                                              *)
OnePerChainEarliest(map, results) ==
    /\ \A e1, e2 \in map : e1.chain = e2.chain => e1 = e2
    /\ \A i \in 1..Len(results) : \E e \in map : e.chain = results[i].chain
    /\ \A e \in map :
          /\ \E i \in 1..Len(results) : results[i] = e
          /\ \A i \in 1..Len(results) :
                results[i].chain = e.chain => e.timestamp <= results[i].timestamp

DistinctTimestamps(results) ==
    \A i, j \in 1..Len(results) :
        (i # j /\ results[i].chain = results[j].chain)
            => results[i].timestamp # results[j].timestamp

(* C26: the POST ?verify response holds at most one result per chain, the  *)
(* (timestamp, height) of a chain is that of its verified attestation with *)
(* the smallest timestamp, and verifying the attestations in another order *)
(* gives the same response.                                                *)
C26_EarliestPerChain ==
    VerifySucceeded =>
        /\ OnePerChainEarliest(Unwrap(pr[1].response.results), pr[1].verified)
        /\ EarliestResult(Reversed(pr[1].verified)) = Unwrap(pr[1].response.results)

(* C26 as the code has it: the order does not matter when the verified     *)
(* attestations of a chain have different timestamps; of attestations with *)
(* the same smallest timestamp the one verified first is reported.         *)
C26_EarliestPerChainFirstOfEqual ==
    VerifySucceeded =>
        LET map == Unwrap(pr[1].response.results)
            results == pr[1].verified
        IN /\ OnePerChainEarliest(map, results)
           /\ DistinctTimestamps(results) => EarliestResult(Reversed(results)) = map
           /\ \A e \in map :
                 LET first == CHOOSE i \in 1..Len(results) :
                                  /\ results[i].chain = e.chain
                                  /\ results[i].timestamp = e.timestamp
                                  /\ \A l \in 1..(i - 1) :
                                        ~(/\ results[l].chain = e.chain
                                          /\ results[l].timestamp = e.timestamp)
                 IN e = results[first]

C26_Witness ==
    /\ VerifySucceeded
    /\ Len(pr[1].verified) = 2
    /\ pr[1].verified[1].chain = pr[1].verified[2].chain
    /\ pr[1].verified[2].timestamp < pr[1].verified[1].timestamp
    /\ Unwrap(pr[1].response.results) = {pr[1].verified[2]}

(* ------------- the store's lock and the tasks of two requests ---------- *)
(* create_mint_event and compute_stamp_status step by step: every call of  *)
(* a ProvenanceDb method is a step that takes the Mutex of the connection  *)
(* (conn.lock()) and a step that runs the statement and drops the guard at *)
(* the method's return; tokio::fs::read, create_timestamp and              *)
(* verify_timestamp are awaits that return later or never.  px is the task *)
(* holding the Mutex (0: free), py the locals of compute_stamp_status per  *)
(* task, pr the log of the verify_timestamp calls.  The clock counts       *)
(* minutes and stands still while a request runs.                          *)
MaxLockRequests == 3

LockFile == "/srv/a.txt"

StoreCalls ==
    {"upsert_artifact", "get_next_event_index", "get_manifest", "insert_event",
     "get_artifact_by_path", "get_manifest_by_path", "get_events",
     "update_last_check_at", "update_verification_result"}

Awaits == {"fs_read", "create_timestamp", "verify_timestamp"}

NoStatusLocals == [found |-> None, latest_event |-> None, v |-> None]

(* The MutexGuard of a method is dropped when the method returns; and a    *)
(* guard that is kept.                                                     *)
drop_guard_kept(t) == t

drop_guard(t) == 0

(* conn.lock(): the task blocks until the Mutex is free. *)
Lock(t) ==
    /\ pc[t] \in StoreCalls
    /\ px = 0
    /\ px' = t
    /\ UNCHANGED <<dbvars, srvvars, storevars, py, pr>>

(* Inside a method of the store, holding its guard. *)
InCall(t, method) == pc[t] = method /\ px = t

Accept(t) == pc[t] \in {"idle", "done"} /\ started < MaxLockRequests

Goto(t, label) == pc' = [pc EXCEPT ![t] = label]

(* PUT of a new file: handle_upload has written it and calls               *)
(* create_mint_event.                                                      *)
LockPut(t) ==
    /\ Accept(t)
    /\ started' = started + 1
    /\ req' = [req EXCEPT ![t] = [method |-> "PUT", path |-> LockFile, body |-> "x"]]
    /\ loc' = [loc EXCEPT ![t] = NoLoc]
    /\ py' = [py EXCEPT ![t] = NoStatusLocals]
    /\ Goto(t, "fs_read")
    /\ UNCHANGED <<dbvars, files, now, allow_delete, resp, put_ok, storevars, px, pr>>

(* A listing that computes the stamp status of the file (to_pathitem). *)
LockStatus(t) ==
    /\ Accept(t)
    /\ started' = started + 1
    /\ req' = [req EXCEPT ![t] = [method |-> "GET", path |-> FileName(LockFile),
                                  body |-> ""]]
    /\ loc' = [loc EXCEPT ![t] = NoLoc]
    /\ py' = [py EXCEPT ![t] = NoStatusLocals]
    /\ Goto(t, "get_artifact_by_path")
    /\ UNCHANGED <<dbvars, files, now, allow_delete, resp, put_ok, storevars, px, pr>>

(* create_mint_event: tokio::fs::read(path).await and the digest. *)
FsRead(t) ==
    /\ pc[t] = "fs_read"
    /\ loc' = [loc EXCEPT ![t].sha256_hex = Sha256Hex(Unwrap(files[req[t].path]))]
    /\ Goto(t, "upsert_artifact")
    /\ UNCHANGED <<dbvars, files, now, allow_delete, req, resp, started, put_ok,
                   storevars, purevars>>

UpsertArtifact(t) ==
    /\ InCall(t, "upsert_artifact")
    /\ artifacts' = upsert_artifact(FileName(req[t].path), loc[t].sha256_hex)
    /\ loc' = [loc EXCEPT ![t].artifact_id = ArtifactIdOf(artifacts', FileName(req[t].path))]
    /\ Goto(t, "get_next_event_index")
    /\ px' = drop_guard(t)
    /\ UNCHANGED <<events, event_actors, event_signatures, shares, share_downloads, files,
                   now, allow_delete, req, resp, started, put_ok, storevars, py, pr>>

(* get_next_event_index, then the branch on it and, for a new mint, the    *)
(* time, hash and signature of the event.                                  *)
GetNextEventIndex(t) ==
    /\ InCall(t, "get_next_event_index")
    /\ LET next_index == get_next_event_index(loc[t].artifact_id)
           issued_at == Rfc3339(now)
           event_hash_hex == compute_event_hash(0, "mint", loc[t].sha256_hex,
                                 MintPrevHash(loc[t].sha256_hex), MintActors, issued_at)
       IN IF next_index > 0
          THEN /\ loc' = [loc EXCEPT ![t].next_index = next_index]
               /\ Goto(t, "get_manifest")
          ELSE /\ loc' = [loc EXCEPT ![t].next_index = next_index,
                                     ![t].issued_at = issued_at,
                                     ![t].event_hash_hex = event_hash_hex,
                                     ![t].creator_sig =
                                         Some(sign_event_hash(event_hash_hex,
                                                              SERVER_PRIVATE_KEY_HEX))]
               /\ Goto(t, "create_timestamp")
    /\ px' = drop_guard(t)
    /\ UNCHANGED <<dbvars, files, now, allow_delete, req, resp, started, put_ok,
                   storevars, py, pr>>

(* get_manifest(&sha256_hex), then compute_stamp_status(path). *)
GetManifest(t) ==
    /\ InCall(t, "get_manifest")
    /\ IF \E a \in ArtifactsBySha(loc[t].sha256_hex) : Len(get_events(a.id)) > 0
       THEN Goto(t, "get_artifact_by_path")
       ELSE Goto(t, "done")
    /\ px' = drop_guard(t)
    /\ UNCHANGED <<dbvars, files, now, allow_delete, req, loc, resp, started, put_ok,
                   storevars, py, pr>>

(* create_timestamp(&digest).await: a proof, or the placeholder. *)
CreateTimestamp(t, stamped) ==
    /\ pc[t] = "create_timestamp"
    /\ loc' = [loc EXCEPT ![t].ots_proof_b64 =
                  B64(IF stamped
                      THEN "ots(" \o loc[t].sha256_hex \o ",nonce)"
                      ELSE "PLACEHOLDER_OTS_PROOF")]
    /\ Goto(t, "insert_event")
    /\ UNCHANGED <<dbvars, files, now, allow_delete, req, resp, started, put_ok,
                   storevars, purevars>>

InsertEvent(t, fail_at) ==
    /\ InCall(t, "insert_event")
    /\ LET r == insert_event(MintArgs(t), fail_at)
       IN /\ events' = r.events
          /\ event_actors' = r.event_actors
          /\ event_signatures' = r.event_signatures
    /\ Goto(t, "done")
    /\ px' = drop_guard(t)
    /\ UNCHANGED <<artifacts, shares, share_downloads, files, now, allow_delete, req, loc,
                   resp, started, put_ok, storevars, py, pr>>

(* compute_stamp_status: get_artifact_by_path, the cached verification and *)
(* the throttle, decided on the row as it was read.                        *)
GetArtifactByPath(t) ==
    /\ InCall(t, "get_artifact_by_path")
    /\ LET found == get_artifact_by_path(req[t].path)
       IN /\ py' = [py EXCEPT ![t].found = found]
          /\ IF ~IsSome(found) THEN Goto(t, "done")
             ELSE IF IsSome(CachedVerification(Unwrap(found))) THEN Goto(t, "done")
             ELSE IF Throttled(Unwrap(found).last_check_at) THEN Goto(t, "done")
             ELSE Goto(t, "get_manifest_by_path")
    /\ px' = drop_guard(t)
    /\ UNCHANGED <<dbvars, files, now, allow_delete, req, loc, resp, started, put_ok,
                   storevars, pr>>

(* get_manifest_by_path: get_artifact_by_path, then get_events. *)
GetManifestByPath(t) ==
    /\ InCall(t, "get_manifest_by_path")
    /\ IF IsSome(get_artifact_by_path(req[t].path)) THEN Goto(t, "get_events")
       ELSE Goto(t, "done")
    /\ px' = drop_guard(t)
    /\ UNCHANGED <<dbvars, files, now, allow_delete, req, loc, resp, started, put_ok,
                   storevars, py, pr>>

GetEvents(t) ==
    /\ InCall(t, "get_events")
    /\ LET rows == SortByIndex({e \in events : e.artifact_id = Unwrap(py[t].found).id})
       IN IF rows = <<>>
          THEN Goto(t, "done") /\ py' = py
          ELSE /\ Goto(t, "update_last_check_at")
               /\ py' = [py EXCEPT ![t].latest_event = Some(rows[Len(rows)])]
    /\ px' = drop_guard(t)
    /\ UNCHANGED <<dbvars, files, now, allow_delete, req, loc, resp, started, put_ok,
                   storevars, pr>>

(* update_last_check_at(artifact_id), then verify_timestamp is called. *)
UpdateLastCheckAt(t) ==
    /\ InCall(t, "update_last_check_at")
    /\ artifacts' = update_last_check_at(Unwrap(py[t].found).id)
    /\ pr' = Append(pr, [task |-> t, at |-> now])
    /\ Goto(t, "verify_timestamp")
    /\ px' = drop_guard(t)
    /\ UNCHANGED <<events, event_actors, event_signatures, shares, share_downloads, files,
                   now, allow_delete, req, loc, resp, started, put_ok, storevars, py>>

(* verify_timestamp(..).await returned v. *)
VerifyTimestampReturns(t, v) ==
    /\ IF v.ok
       THEN py' = [py EXCEPT ![t].v = Some(v)] /\ Goto(t, "update_verification_result")
       ELSE py' = py /\ Goto(t, "done")
    /\ UNCHANGED <<dbvars, files, now, allow_delete, req, loc, resp, started, put_ok,
                   storevars, px, pr>>

AwaitVerifyTimestamp(t, env) ==
    /\ pc[t] = "verify_timestamp"
    /\ VerifyTimestampReturns(t, verify_timestamp(env,
           Unwrap(py[t].latest_event).ots_proof_b64,
           Unwrap(py[t].latest_event).artifact_sha256_hex))

(* update_verification_result / update_ots_proof_and_verification. *)
UpdateVerificationResult(t) ==
    /\ InCall(t, "update_verification_result")
    /\ LET st == StatusOfVerification(Unwrap(py[t].found), Unwrap(py[t].latest_event),
                                      Unwrap(py[t].v))
       IN /\ artifacts' = st.artifacts
          /\ events' = st.events
    /\ Goto(t, "done")
    /\ px' = drop_guard(t)
    /\ UNCHANGED <<event_actors, event_signatures, shares, share_downloads, files, now,
                   allow_delete, req, loc, resp, started, put_ok, storevars, py, pr>>

(* A minute passes between requests. *)
LockMinute == (\A t \in Tasks : pc[t] \in {"idle", "done"}) /\ Minute

InitLock ==
    /\ InitDb /\ InitStoreIdle
    /\ files = [p \in Paths |-> Some("x")]
    /\ now = 0
    /\ allow_delete = TRUE
    /\ pc = [t \in Tasks |-> "idle"]
    /\ req = [t \in Tasks |-> NoReq]
    /\ loc = [t \in Tasks |-> NoLoc]
    /\ resp = [t \in Tasks |-> NoResp]
    /\ started = 0
    /\ put_ok = {}
    /\ px = 0
    /\ py = [t \in Tasks |-> NoStatusLocals]
    /\ pr = <<>>

(* The steps of a task that run without suspending: taking the Mutex and   *)
(* the methods of the store.                                               *)
StoreStep(t) ==
    \/ Lock(t)
    \/ UpsertArtifact(t)
    \/ GetNextEventIndex(t)
    \/ GetManifest(t)
    \/ \E fail_at \in FailPoints : InsertEvent(t, fail_at)
    \/ GetArtifactByPath(t)
    \/ GetManifestByPath(t)
    \/ GetEvents(t)
    \/ UpdateLastCheckAt(t)
    \/ UpdateVerificationResult(t)

(* The awaits of a task returning: the file read, the calendars, the       *)
(* explorer.                                                               *)
AwaitStep(t) ==
    \/ FsRead(t)
    \/ \E stamped \in BOOLEAN : CreateTimestamp(t, stamped)
    \/ \E env \in StampEnvs : AwaitVerifyTimestamp(t, env)

NextLock ==
    \/ \E t \in Tasks : LockPut(t)
    \/ \E t \in Tasks : LockStatus(t)
    \/ \E t \in Tasks : StoreStep(t)
    \/ \E t \in Tasks : AwaitStep(t)
    \/ LockMinute

(* A thread that waits for the Mutex gets it once it is free, and a method *)
(* of the store runs to its return; an await may never return.             *)
SpecLock == InitLock /\ [][NextLock]_vars /\ \A t \in Tasks : WF_vars(StoreStep(t))

(* The Mutex is held only inside a method of the store. *)
LockInsideStoreCall == \A t \in Tasks : px = t => pc[t] \in StoreCalls

StoreCallReturns == \A t \in Tasks : (pc[t] \in StoreCalls) ~> (pc[t] \notin StoreCalls)

(* C29: no task holds the store's Mutex at a suspension point (reading the *)
(* file to hash, the calendar and explorer calls), and whatever the awaits *)
(* of other tasks do, a task that calls a method of the store returns      *)
(* from it.                                                                *)
C29_LockNotHeldAcrossAwait == []LockInsideStoreCall /\ StoreCallReturns

C29_Witness ==
    \E t, u \in Tasks :
        /\ pc[t] = "verify_timestamp"
        /\ pc[u] = "update_last_check_at" /\ px = u

ContactingCalendar(t) == pc[t] = "mint_stamp"

(* The store holds the index-0 event of the artifact task t is minting. *)
MintEventCommitted(t) ==
    \E e \in events : e.artifact_id = loc[t].artifact_id /\ e.index_num = 0

(* C31: a mint has committed its index-0 event to the store before it      *)
(* contacts any calendar: whenever a task stands at the calendar call of   *)
(* create_mint_event, the mint event of its artifact is already a row of   *)
(* the events table.                                                       *)
C31_EventCommittedBeforeCalendar ==
    \A t \in Tasks : ContactingCalendar(t) => MintEventCommitted(t)

(* --------------------- create_timestamp (OTS create) ------------------- *)
(* The loop of create_timestamp over the calendars, one request per step.  *)
(* py is the call (digest, nonce and what each calendar would answer), px  *)
(* the locals of the function, pr the requests made so far.                *)
DEFAULT_CALENDAR_URLS ==
    <<"https://a.pool.opentimestamps.org", "https://b.pool.opentimestamps.org",
      "https://a.pool.eternitywall.com", "https://ots.btc.catallaxy.com">>

MAX_RESPONSE_SIZE == 10000

(* What a calendar does with POST /digest: no response within the client   *)
(* timeout, or a status and a body of some length that is, or is not, a    *)
(* serialized timestamp.                                                   *)
SubmitReplies == {"timeout", "status500", "oversize", "atcap", "pending", "garbage"}

SubmitResponse(reply) ==
    CASE reply = "timeout" -> [sent |-> FALSE, success |-> FALSE, len |-> 0, parses |-> FALSE]
      [] reply = "status500" -> [sent |-> TRUE, success |-> FALSE, len |-> 20, parses |-> FALSE]
      [] reply = "oversize" ->
            [sent |-> TRUE, success |-> TRUE, len |-> MAX_RESPONSE_SIZE + 1, parses |-> TRUE]
      [] reply = "atcap" ->
            [sent |-> TRUE, success |-> TRUE, len |-> MAX_RESPONSE_SIZE, parses |-> TRUE]
      [] reply = "pending" -> [sent |-> TRUE, success |-> TRUE, len |-> 100, parses |-> TRUE]
      [] reply = "garbage" -> [sent |-> TRUE, success |-> TRUE, len |-> 100, parses |-> FALSE]

(* submit_to_calendar: Ok(response bytes) or the error. *)
submit_to_calendar(calendar, url, digest) ==
    LET response == SubmitResponse(calendar[url])
    IN IF ~response.sent
       THEN [ok |-> FALSE, error |-> "error sending request", data |-> "", from |-> url]
       ELSE IF ~response.success
       THEN [ok |-> FALSE, error |-> "Calendar server returned error: 500", data |-> "",
             from |-> url]
       ELSE IF response.len > MAX_RESPONSE_SIZE
       THEN [ok |-> FALSE, error |-> "Response too large", data |-> "", from |-> url]
       ELSE [ok |-> TRUE, error |-> "", data |-> calendar[url] \o "@" \o url, from |-> url]

(* [String]::join(sep). *)
RECURSIVE join(_, _)
join(strs, sep) ==
    IF strs = <<>> THEN ""
    ELSE IF Len(strs) = 1 THEN strs[1]
    ELSE strs[1] \o sep \o join(Tail(strs), sep)

(* The nonce-appended digest and its SHA-256, the value submitted. *)
NonceDigest(digest, nonce) == digest \o nonce

MerkleRoot(digest, nonce) == "sha256(" \o NonceDigest(digest, nonce) \o ")"

(* `break` of the loop on the first Ok; the loop also ends after the last  *)
(* calendar.                                                               *)
LoopEnds_noBreak(timestamp_data, i) == i > Len(DEFAULT_CALENDAR_URLS)

LoopEnds(timestamp_data, i) == IsSome(timestamp_data) \/ i > Len(DEFAULT_CALENDAR_URLS)

NoCreateResult == [done |-> FALSE, ok |-> FALSE, error |-> "", timestamp |-> None]

CreateCalls ==
    [digest : {"raw(" \o Sha256Hex(c) \o ")" : c \in Contents}, nonce : {"n1"},
     calendar : [{DEFAULT_CALENDAR_URLS[k] : k \in 1..Len(DEFAULT_CALENDAR_URLS)}
                     -> SubmitReplies]]

InitCreate ==
    /\ InitDb /\ InitServerIdle /\ InitStoreIdle
    /\ py \in CreateCalls
    /\ px = [i |-> 1, timestamp_data |-> None, errors |-> <<>>, result |-> NoCreateResult]
    /\ pr = <<>>

(* One iteration of `for calendar_url in DEFAULT_CALENDAR_URLS`. *)
SubmitNext ==
    /\ ~px.result.done
    /\ ~LoopEnds(px.timestamp_data, px.i)
    /\ LET calendar_url == DEFAULT_CALENDAR_URLS[px.i]
           merkle_root == MerkleRoot(py.digest, py.nonce)
           r == submit_to_calendar(py.calendar, calendar_url, merkle_root)
       IN /\ pr' = Append(pr, [url |-> calendar_url, body |-> merkle_root, ok |-> r.ok])
          /\ px' = IF r.ok
                   THEN [px EXCEPT !.timestamp_data = Some(r), !.i = px.i + 1]
                   ELSE [px EXCEPT !.errors = Append(px.errors,
                                                 calendar_url \o ": " \o r.error),
                                   !.i = px.i + 1]
    /\ UNCHANGED <<dbvars, srvvars, storevars, py>>

(* After the loop: the error of `ok_or_else`, the error of from_reader on  *)
(* the calendar's bytes, or the timestamp from the digest through the      *)
(* nonce and the hash to the calendar's first step.                        *)
CreateReturn ==
    /\ ~px.result.done
    /\ LoopEnds(px.timestamp_data, px.i)
    /\ LET merkle_root == MerkleRoot(py.digest, py.nonce)
           url == Unwrap(px.timestamp_data).from
           result ==
               IF ~IsSome(px.timestamp_data)
               THEN [NoCreateResult EXCEPT !.done = TRUE, !.error =
                        "Failed to get timestamp from any calendar server. Errors: "
                            \o join(px.errors, ", ")]
               ELSE IF ~SubmitResponse(py.calendar[url]).parses
               THEN [NoCreateResult EXCEPT !.done = TRUE, !.error = "from_reader"]
               ELSE [NoCreateResult EXCEPT !.done = TRUE, !.ok = TRUE, !.timestamp =
                        Some([start_digest |-> py.digest,
                              first_step |->
                                  OpStep("append", NonceDigest(py.digest, py.nonce),
                                      OpStep("sha256", merkle_root,
                                          AttStep(AttPending(url), merkle_root)))])]
       IN px' = [px EXCEPT !.result = result]
    /\ UNCHANGED <<dbvars, srvvars, storevars, py, pr>>

NextCreate == SubmitNext \/ CreateReturn

SpecCreate == InitCreate /\ [][NextCreate]_vars

(* Every request so far went to the calendars in the configured order and  *)
(* carried the SHA-256 of the nonce-appended digest.                       *)
InConfiguredOrder ==
    \A k \in 1..Len(pr) : /\ pr[k].url = DEFAULT_CALENDAR_URLS[k]
                          /\ pr[k].body = MerkleRoot(py.digest, py.nonce)

(* No request follows one that was answered successfully. *)
StopsAtFirstSuccess == \A k \in 1..Len(pr) : pr[k].ok => k = Len(pr)

EveryCalendarFailed ==
    /\ Len(pr) = Len(DEFAULT_CALENDAR_URLS)
    /\ \A k \in 1..Len(pr) : ~pr[k].ok

CreateFailed == px.result.done /\ ~px.result.ok

(* One error string per calendar, in the configured order. *)
CollectedErrors ==
    [k \in 1..Len(DEFAULT_CALENDAR_URLS) |->
        DEFAULT_CALENDAR_URLS[k] \o ": " \o
        submit_to_calendar(py.calendar, DEFAULT_CALENDAR_URLS[k],
                           MerkleRoot(py.digest, py.nonce)).error]

CarriesEveryError ==
    px.result.error = "Failed to get timestamp from any calendar server. Errors: "
                          \o join(CollectedErrors, ", ")

(* The calendar that answered successfully sent bytes that are not a       *)
(* serialized timestamp, and create_timestamp returns the parse error.     *)
ReplyDidNotParse ==
    /\ pr # <<>>
    /\ pr[Len(pr)].ok
    /\ ~SubmitResponse(py.calendar[pr[Len(pr)].url]).parses
    /\ px.result.error = "from_reader"

(* C32: create_timestamp submits the nonce-hashed digest to the calendars  *)
(* in the configured order, makes no request after the first one that      *)
(* succeeded, and fails if and only if every calendar failed, the error    *)
(* then holding one error string per calendar.                             *)
C32_FirstSuccessElseAllErrors ==
    /\ InConfiguredOrder
    /\ StopsAtFirstSuccess
    /\ CreateFailed => EveryCalendarFailed /\ CarriesEveryError
    /\ px.result.done /\ EveryCalendarFailed => CreateFailed

(* C32 as the code has it: as above, but create_timestamp also fails when  *)
(* the first successful response does not parse as a timestamp, without    *)
(* contacting the calendars after it.                                      *)
C32_FirstSuccessElseAllErrorsOrParse ==
    /\ InConfiguredOrder
    /\ StopsAtFirstSuccess
    /\ CreateFailed => \/ EveryCalendarFailed /\ CarriesEveryError
                       \/ ReplyDidNotParse
    /\ px.result.done /\ EveryCalendarFailed => CreateFailed

C32_Witness ==
    /\ px.result.done /\ px.result.ok
    /\ Len(pr) = 3

C32_WitnessAllFailed == CreateFailed /\ EveryCalendarFailed /\ CarriesEveryError

(* ---------------- the event log under uploads and proofs --------------- *)
(* Uploads, re-uploads, POST ?ots and stamp status calls on a store whose  *)
(* artifacts are recorded under the path they are looked up by.  px is the *)
(* upload whose create_mint_event has upserted the artifact and not yet    *)
(* returned; py and pr are those of the stamp status runs.                 *)
NoPut == [file_path |-> "", sha256_hex |-> ""]

(* The path the runs upload to and ask about. *)
LogPaths == {"a.txt"}

InitLog ==
    /\ InitDb /\ InitServerIdle /\ InitStoreIdle
    /\ px = NoPut
    /\ py = [p \in StorePaths |-> None]
    /\ pr = <<>>

(* create_mint_event up to upsert_artifact: the file is hashed and the     *)
(* artifact row inserted, or its sha256_hex replaced.                      *)
LogUpsert(file_path, content) ==
    /\ px = NoPut
    /\ calls < MaxStampCalls
    /\ calls' = calls + 1
    /\ artifacts' = upsert_artifact(file_path, Sha256Hex(content))
    /\ px' = [file_path |-> file_path, sha256_hex |-> Sha256Hex(content)]
    /\ UNCHANGED <<events, event_actors, event_signatures, shares, share_downloads,
                   srvvars, cargs, cres, last, py, pr>>

(* create_mint_event, next index 0: the proof of create_timestamp or the   *)
(* placeholder, insert_event and the mint response.                        *)
LogMint(stamped) ==
    /\ px # NoPut
    /\ LET a == Unwrap(get_artifact_by_path(px.file_path))
           issued_at == Rfc3339(now)
           event_hash_hex == compute_event_hash(0, "mint", px.sha256_hex, None, MintActors,
                                                issued_at)
           ots_proof_b64 == B64(IF stamped THEN OtsBytes(px.sha256_hex, "nonce")
                                ELSE "PLACEHOLDER_OTS_PROOF")
           r == insert_event([artifact_id |-> a.id, index |-> 0, action |-> "mint",
                              artifact_sha256_hex |-> px.sha256_hex,
                              prev_event_hash_hex |-> None, issued_at |-> issued_at,
                              event_hash_hex |-> event_hash_hex,
                              ots_proof_b64 |-> ots_proof_b64, actors |-> MintActors,
                              signatures |-> [NoSignatures EXCEPT !.creator_sig_hex =
                                  Some(sign_event_hash(event_hash_hex,
                                                       SERVER_PRIVATE_KEY_HEX))]],
                             "none")
       IN /\ get_next_event_index(a.id) = 0
          /\ events' = r.events
          /\ event_actors' = r.event_actors
          /\ event_signatures' = r.event_signatures
          /\ pr' = <<[call |-> "mint", path |-> px.file_path, at |-> now,
                      before |-> Some(a), attempted |-> py[px.file_path],
                      status |-> Pending(px.sha256_hex), verify_calls |-> 0,
                      requests |-> 0]>>
    /\ px' = NoPut
    /\ UNCHANGED <<artifacts, shares, share_downloads, srvvars, storevars, py>>

(* create_mint_event, artifact with events: the response carries the       *)
(* stamp status compute_stamp_status returns for the path.                 *)
LogExistingReturns(st) ==
    /\ artifacts' = st.artifacts
    /\ events' = st.events
    /\ pr' = <<[call |-> "mint_existing", path |-> px.file_path, at |-> now,
                before |-> get_artifact_by_path(px.file_path),
                attempted |-> py[px.file_path], status |-> st.status,
                verify_calls |-> st.verify_calls, requests |-> st.requests]>>
    /\ px' = NoPut
    /\ UNCHANGED <<event_actors, event_signatures, shares, share_downloads, srvvars,
                   storevars, py>>

LogExisting(env) ==
    /\ px # NoPut
    /\ get_next_event_index(Unwrap(get_artifact_by_path(px.file_path)).id) > 0
    /\ ArtifactsBySha(px.sha256_hex) # {}
    /\ LogExistingReturns(compute_stamp_status(px.file_path, env))

(* update_ots_proof: UPDATE events SET ots_proof_b64 WHERE artifact_id and *)
(* index_num; and the same written as a REPLACE of the row.                *)
update_ots_proof_replaceRow(artifact_id, event_index, ots_proof_b64) ==
    {IF e.artifact_id = artifact_id /\ e.index_num = event_index
     THEN [e EXCEPT !.id = NextRowId(events), !.ots_proof_b64 = ots_proof_b64,
                    !.issued_at = "", !.verified = None]
     ELSE e : e \in events}

update_ots_proof(artifact_id, event_index, ots_proof_b64) ==
    {IF e.artifact_id = artifact_id /\ e.index_num = event_index
     THEN [e EXCEPT !.ots_proof_b64 = ots_proof_b64]
     ELSE e : e \in events}

(* The bodies of POST ?ots: a detached timestamp file, or other bytes. *)
OtsUploads ==
    {OtsBytes(Sha256Hex(c), "two_heights") : c \in Contents} \cup {"not an ots file"}

(* handle_ots_upload: 404 for a path without artifact or without events,   *)
(* else the proof of the latest event is replaced by the body.             *)
HandleOtsUpload(path, body_bytes) ==
    /\ px = NoPut
    /\ calls < MaxStampCalls
    /\ calls' = calls + 1
    /\ LET found == get_artifact_by_path(path)
           next_index == get_next_event_index(Unwrap(found).id)
           ots_proof_b64 == B64(body_bytes)
           missing == ~IsSome(found) \/ next_index = 0
       IN /\ events' = IF missing THEN events
                       ELSE update_ots_proof(Unwrap(found).id, next_index - 1,
                                             ots_proof_b64)
          /\ pr' = <<[call |-> "ots_upload", path |-> path, at |-> now,
                      before |-> found, attempted |-> py[path],
                      status |-> IF missing THEN 404 ELSE 200,
                      proof |-> ots_proof_b64]>>
    /\ UNCHANGED <<artifacts, event_actors, event_signatures, shares, share_downloads,
                   srvvars, cargs, cres, last, px, py>>

NextLog ==
    \/ \E file_path \in LogPaths, content \in Contents : LogUpsert(file_path, content)
    \/ \E stamped \in BOOLEAN : LogMint(stamped)
    \/ \E env \in StampEnvs : LogExisting(env)
    \/ \E path \in LogPaths, env \in StampEnvs : px = NoPut /\ StampStatus(path, env)
    \/ \E path \in LogPaths, body_bytes \in OtsUploads : HandleOtsUpload(path, body_bytes)
    \/ Minute

SpecLog == InitLog /\ [][NextLog]_vars

(* The columns of an event row that are fixed when the event is written. *)
Immutable(e) ==
    [id |-> e.id, artifact_id |-> e.artifact_id, index_num |-> e.index_num,
     action |-> e.action, artifact_sha256_hex |-> e.artifact_sha256_hex,
     prev_event_hash_hex |-> e.prev_event_hash_hex, issued_at |-> e.issued_at,
     event_hash_hex |-> e.event_hash_hex]

(* A step keeps every event row with its fixed columns, its actors and its *)
(* signatures; the row may differ in its proof and cached verification.    *)
EventsKept ==
    \A e \in events :
       /\ \E f \in events' : /\ Immutable(f) = Immutable(e)
                             /\ \A g \in events' : g.id = e.id => g = f
       /\ {r \in event_actors' : r.event_id = e.id}
              = {r \in event_actors : r.event_id = e.id}
       /\ {r \in event_signatures' : r.event_id = e.id}
              = {r \in event_signatures : r.event_id = e.id}

(* C33: events are append-only: no step (upload, re-upload, POST ?ots,     *)
(* upgrade and verification caching by a stamp status) removes an event    *)
(* or changes its index, action, digest, prev-event-hash, issued-at,       *)
(* event-hash, actors or signatures.                                       *)
C33_EventsAppendOnly == [][EventsKept]_vars

(* POST ?ots has replaced the proof of a mint event of other bytes, and    *)
(* the event is otherwise the mint event that was written.                 *)
C33_Witness ==
    /\ pr # <<>> /\ pr[1].call = "ots_upload" /\ pr[1].status = 200
    /\ \E e \in events :
          /\ e.index_num = 0 /\ e.action = "mint"
          /\ e.ots_proof_b64 = pr[1].proof
          /\ e.ots_proof_b64 # B64(OtsBytes(e.artifact_sha256_hex, "nonce"))
          /\ e.artifact_id = Unwrap(pr[1].before).id
          /\ Unwrap(pr[1].before).sha256_hex # e.artifact_sha256_hex

(* A stamp status has cached a verification in an event. *)
C33_WitnessCached == \E e \in events : IsSome(e.verified)

(* ------------------ collect_dir_entries (search, zip) ------------------ *)
(* The walk of collect_dir_entries while another thread may clear the      *)
(* shared running flag.  px is the call, py the flag (and what the walk    *)
(* held when it was cleared), pr the locals of the walk.                   *)
WalkEntry(path, base_name, entry_is_dir, parent, inside, err) ==
    [path |-> path, base_name |-> base_name, is_dir |-> entry_is_dir, parent |-> parent,
     inside |-> inside, err |-> err]

(* What WalkDir yields below each root of the served tree, depth first,    *)
(* the root itself left out: parent is the position of the directory an    *)
(* entry lies in (0 for the root), inside whether its canonical path is    *)
(* under the served path, err whether reading it fails.                    *)
WalkTree ==
    [dir \in {"/srv/d1", "/srv/d2"} |->
        IF dir = "/srv/d1"
        THEN <<WalkEntry("/srv/d1/a", "a", FALSE, 0, TRUE, FALSE),
               WalkEntry("/srv/d1/.h", ".h", TRUE, 0, TRUE, FALSE),
               WalkEntry("/srv/d1/.h/x", "x", FALSE, 2, TRUE, FALSE),
               WalkEntry("/srv/d1/link", "link", TRUE, 0, FALSE, FALSE),
               WalkEntry("/srv/d1/link/y", "y", FALSE, 4, FALSE, FALSE),
               WalkEntry("/srv/d1/b", "b", FALSE, 0, TRUE, FALSE)>>
        ELSE <<WalkEntry("/srv/d2/c", "c", FALSE, 0, TRUE, FALSE),
               WalkEntry("/srv/d2/a", "a", FALSE, 0, TRUE, FALSE),
               WalkEntry("/srv/d2/bad", "bad", FALSE, 0, TRUE, TRUE),
               WalkEntry("/srv/d2/e", "e", FALSE, 0, TRUE, FALSE)>>]

(* access_paths.entry_paths(&path), the hidden names, follow_symlinks and  *)
(* the search term of include_entry ("" includes every entry).             *)
WalkCalls ==
    [roots : {<<"/srv/d1">>, <<"/srv/d2">>, <<"/srv/d1", "/srv/d2">>,
              <<"/srv/d2", "/srv/d1">>},
     hidden : {{".h"}}, follow_symlinks : BOOLEAN, search : {"", "a"}]

is_hidden(hidden, base_name, entry_is_dir) == base_name \in hidden

include_entry(search, entry) == search = "" \/ entry.base_name = search

(* running.load(SeqCst), and the walk without the test of the flag. *)
running_load_ignored(flag) == TRUE

running_load(flag) == flag

NoFlip == [len |-> 0, processing |-> None]

InitWalk ==
    /\ InitDb /\ InitServerIdle /\ InitStoreIdle
    /\ px \in WalkCalls
    /\ py = [running |-> TRUE, at_flip |-> NoFlip]
    /\ pr = [d |-> 1, k |-> 1, skipped |-> {}, entry |-> 0, paths |-> <<>>,
             phase |-> "next"]

(* The entries of the root the walk is in. *)
WalkEntries == WalkTree[px.roots[pr.d]]

(* it.next(): the position of the next entry that is not below a directory *)
(* skipped with skip_current_dir, 0 at the end.                            *)
ItNext ==
    LET rest == {n \in pr.k..Len(WalkEntries) : WalkEntries[n].parent \notin pr.skipped}
    IN IF rest = {} THEN 0 ELSE CHOOSE n \in rest : \A m \in rest : n <= m

(* The inner loop is left: the walk goes on with the next root, or ends. *)
NextRoot ==
    [pr EXCEPT !.d = pr.d + 1, !.k = 1, !.skipped = {}, !.entry = 0,
               !.phase = IF pr.d + 1 > Len(px.roots) THEN "done" ELSE "next"]

(* `while let Some(Ok(entry)) = it.next()` and the test of the flag. *)
WalkNext ==
    /\ pr.phase = "next"
    /\ pr' = IF ItNext = 0 \/ WalkEntries[ItNext].err THEN NextRoot
             ELSE IF ~running_load(py.running) THEN NextRoot
             ELSE [pr EXCEPT !.entry = ItNext, !.phase = "process"]
    /\ UNCHANGED <<dbvars, srvvars, storevars, px, py>>

(* The rest of the loop body: hidden entries and entries outside the       *)
(* served path are passed over (a directory with what is below it), the    *)
(* others are pushed if include_entry holds.                               *)
WalkProcess ==
    /\ pr.phase = "process"
    /\ LET entry == WalkEntries[pr.entry]
           passed == [pr EXCEPT !.k = pr.entry + 1, !.phase = "next",
                                !.skipped = IF entry.is_dir THEN @ \cup {pr.entry} ELSE @]
           kept == [pr EXCEPT !.k = pr.entry + 1, !.phase = "next"]
       IN pr' = IF is_hidden(px.hidden, entry.base_name, entry.is_dir) THEN passed
                ELSE IF ~px.follow_symlinks /\ ~entry.inside THEN passed
                ELSE IF ~include_entry(px.search, entry) THEN kept
                ELSE [kept EXCEPT !.paths = Append(pr.paths, entry.path)]
    /\ UNCHANGED <<dbvars, srvvars, storevars, px, py>>

(* Another thread stores false in the running flag. *)
StopRunning ==
    /\ py.running
    /\ pr.phase # "done"
    /\ py' = [running |-> FALSE,
              at_flip |-> [len |-> Len(pr.paths),
                           processing |-> IF pr.phase = "process"
                                          THEN Some(WalkEntries[pr.entry].path)
                                          ELSE None]]
    /\ UNCHANGED <<dbvars, srvvars, storevars, px, pr>>

WalkStep == WalkNext \/ WalkProcess

NextWalk == WalkNext \/ WalkProcess \/ StopRunning

(* The task that walks is polled until it returns. *)
SpecWalk == InitWalk /\ [][NextWalk]_vars /\ WF_vars(WalkStep)

(* Since the flag was cleared the result grew by at most the entry that    *)
(* was being processed then.                                               *)
AtMostCurrent ==
    /\ Len(pr.paths) <= py.at_flip.len + (IF IsSome(py.at_flip.processing) THEN 1 ELSE 0)
    /\ Len(pr.paths) > py.at_flip.len
          => pr.paths[Len(pr.paths)] = Unwrap(py.at_flip.processing)

(* C34: once the running flag is false the walk adds no entry to its       *)
(* result other than the one it was processing when the flag changed, in   *)
(* the root it is in and in the roots that follow, and it returns.         *)
C34_StopsWhenNotRunning ==
    /\ [](~py.running => AtMostCurrent)
    /\ (~py.running) ~> (pr.phase = "done")

(* The flag was cleared while the first entry of the first of two roots    *)
(* was processed: the walk returned that entry alone.                      *)
C34_Witness ==
    /\ ~py.running /\ pr.phase = "done"
    /\ px.roots = <<"/srv/d1", "/srv/d2">> /\ px.search = ""
    /\ py.at_flip = [len |-> 0, processing |-> Some("/srv/d1/a")]
    /\ pr.paths = <<"/srv/d1/a">>

(* --------------------- what an upgrade leaves in place ----------------- *)
(* Step `after` holds step `before`: the same data and output, and for     *)
(* every child of `before` a child of `after` that holds it.               *)
RECURSIVE HoldsStep(_, _)
HoldsStep(after, before) ==
    /\ after.data = before.data
    /\ after.output = before.output
    /\ \A i \in 1..Len(before.next) :
          \E j \in 1..Len(after.next) : HoldsStep(after.next[j], before.next[i])

UpgradeCalls == {i \in 1..Len(pr) : pr[i].call = "upgrade"}

(* C35: upgrade_timestamp leaves the timestamp rooted where it was and     *)
(* loses no step: after every call the start digest is the one before the  *)
(* call, and every step and attestation the timestamp held is still in it. *)
C35_UpgradeKeepsRootAndSteps ==
    \A i \in UpgradeCalls :
       /\ pr[i].out.timestamp.start_digest = pr[i].before.start_digest
       /\ HoldsStep(pr[i].out.timestamp.first_step, pr[i].before.first_step)

(* ----------------- the digest a stamp status speaks for ---------------- *)
(* The last call returned a stamp status with success = true. *)
ReportedSuccess ==
    /\ pr # <<>>
    /\ pr[1].call \in {"stamp", "mint_existing"}
    /\ IsSome(pr[1].status)
    /\ Unwrap(pr[1].status).success

(* An event of the artifact at the path with this digest has a proof that  *)
(* was verified against the digest.                                        *)
ConfirmedFor(path, sha256_hex) ==
    \E e \in events :
       /\ e.artifact_id = Unwrap(get_artifact_by_path(path)).id
       /\ e.artifact_sha256_hex = sha256_hex
       /\ IsSome(e.verified)
       /\ IsSome(ParsedProof(e.ots_proof_b64))

NewFilePut ==
    /\ Answered
    /\ LastRequest.method = "PUT" /\ pr[1].status = 201
    /\ ~IsSome(pr[1].files[LastRequest.path])
    /\ resp[1].kind \in {"minted", "existing"}

(* The store holds an artifact under the path, written by the last request *)
(* together with its index-0 event.                                        *)
MintedUnder(path) ==
    \E a \in artifacts :
       /\ a.file_path = path
       /\ a.id \notin {b.id : b \in pr[1].tables[1]}
       /\ \E e \in events : /\ e.artifact_id = a.id /\ e.index_num = 0
                            /\ e.action = "mint"
                            /\ e.id \notin {f.id : f \in pr[1].tables[2]}

(* C37: artifacts are keyed by the full path: the upload of a new file     *)
(* creates an artifact of its own under the file's path, with an index-0   *)
(* mint event of its own, and the manifest looked up by that path is       *)
(* the one of this artifact.                                               *)
C37_ArtifactPerPath ==
    NewFilePut =>
        /\ MintedUnder(LastRequest.path)
        /\ IsSome(get_manifest_by_path(LastRequest.path))

(* New files uploaded at /srv/a.txt and /srv/d/a.txt: the second upload    *)
(* found the artifact and the mint event of the first.                     *)
TwoPathsOneArtifact ==
    /\ NewFilePut /\ resp[1].kind = "existing"
    /\ is_file("/srv/a.txt") /\ is_file("/srv/d/a.txt")
    /\ Cardinality(artifacts) = 1 /\ Cardinality(events) = 1

(* --------------- PATCH below the end of a file, no delete -------------- *)
(* The last request was a PATCH the guard let through, to an existing file *)
(* on a server that allows uploads and does not allow delete, with an      *)
(* X-Update-Range offset smaller than the size of the file.                *)
OverwritingPatch ==
    /\ Answered
    /\ LastRequest.method = "PATCH"
    /\ GuardRefusal(pr[1].guard) = 0
    /\ px.allow_upload /\ ~allow_delete
    /\ IsSome(pr[1].files[LastRequest.path])
    /\ pr[1].files[LastRequest.path] # DirEntry
    /\ LET size == BytesLen(Unwrap(pr[1].files[LastRequest.path]))
           parsed == parse_upload_offset(LastRequest.range, size)
       IN parsed.ok /\ IsSome(parsed.offset) /\ Unwrap(parsed.offset) < size

(* C38: such a PATCH is refused without writing: the status is 403 and the *)
(* bytes of the file are those it held before the request.                 *)
C38_PatchOverwriteRefused ==
    OverwritingPatch =>
        /\ pr[1].status = 403
        /\ files[LastRequest.path] = pr[1].files[LastRequest.path]

(* ------------------ the digest header of a shared file ----------------- *)
(* Shares are created and fetched while the files they name are written.   *)
NextShareFile ==
    \/ \E path \in Paths, user \in RequestUsers, share_id \in ShareIds :
          HandleCreateShare(path, user, share_id)
    \/ \E path \in Paths, user \in RequestUsers, share_id \in ShareIds :
          StoreCreateShare(path, user, share_id, "sk1")
    \/ \E share_id \in ShareIds \cup {"s0"}, head_only \in BOOLEAN, record_ok \in BOOLEAN :
          HandleSharedFileAccess(share_id, head_only, record_ok)
    \/ \E path \in Paths : SharedFileOverwritten(path)

SpecShareFile == InitShare /\ [][NextShareFile]_vars

(* The last call was a GET /share/<id> answered 200 with a body. *)
SharedFileSent ==
    /\ pr # <<>> /\ pr[1].call = "access"
    /\ pr[1].response.status = 200
    /\ IsSome(pr[1].response.body)

(* The value of a header of the response. *)
HeaderOf(response, name) == (CHOOSE h \in response.headers : h[1] = name)[2]

====
